---- MODULE Spec2Model ----
(***************************************************************************)
(* Model of the content storage and placement engine of Go_Portfolio:     *)
(* files.MongoFile (Store, Open, ToPage, Delete) and files.GetFromDB of   *)
(* src/internal/files/mongofile.go, as driven by the upload handlers of   *)
(* src/portfolio/upload.go.                                               *)
(*                                                                         *)
(* Spec      the storage engine, one call at a time                       *)
(* SpecZip   the import of an archive (handleUploadZip)                   *)
(* SpecSite  uploads, export and import on the server that keeps pages as *)
(*           PageDataDB (src/unnamed/part_006, src/portfolio/download.go) *)
(* SpecConc  Store, Delete and a reader running concurrently on one path  *)
(* SpecAsset handleAsset serving a file of GridFS through a pipe          *)
(* SpecUpload handleUpload and handleDelete, one request at a time         *)
(* SpecType  filetypeFromFile (src/unnamed/part_002)                       *)
(* SpecBucket GridFSFile.Upload and the handler deleting a GridFSFile      *)
(* SpecDir   ProcessDir (src/unnamed/part_011) with UploadToDB             *)
(*                                                                         *)
(* A path is a sequence of one-character strings.  A payload is a run of  *)
(* len equal bytes, written [len |-> n, byte |-> b]; the empty payload is *)
(* [len |-> 0, byte |-> 0].  The collection is the sequence of its        *)
(* documents in insertion order.  Every field of MongoFile carries the    *)
(* bson option omitempty, so a field is present in a document exactly     *)
(* when its value is not the zero value: a document is a record of all    *)
(* fields, the zero value standing for "field absent".                    *)
(***************************************************************************)
EXTENDS Integers, Sequences, FiniteSets, TLC

\* col:    the documents of the collection, in insertion order
\* fs:     the files below URIRoot, by path (NoFile where there is none)
\* file:   the MongoFile a request holds (the f of handleFile, handleDelete)
\* last:   the latest call, its arguments and what it returned
\* stores: the number of Store calls made
\* zr:     the archive import in progress: the archive, the position of the
\*         loop of handleUploadZip, the entries applied and the error returned
\* site:   the static directory, the template directory and the page
\*         collection of the server that keeps its pages as PageDataDB
\* xp:     the uploads, imports and the export made on that server: the
\*         latest call, the bundle of the export and the listing before it
\* procs:  the calls that run concurrently on one path: for every request its
\*         handler, the step it is at, its MongoFile and what it returned;
\*         procs[0] is the Store that was completed before they began
\* dl:     the request for an asset: the step of handleAsset, the pipe, the
\*         two goroutines writing to it and the bytes read from it
\* req:    the upload or delete request being handled: the step of
\*         handleUpload, the uploaded file, its temporary directory, the path
\*         to delete and the response
\* ft:     the file name last classified by filetypeFromFile and its Filetype
\* gfs:    the GridFS bucket of the server that keeps files as GridFSFile,
\*         and the last call on it with its response
\* pd:     the call of ProcessDir: the files of the directory, the Configs,
\*         the step of the walk and the database
VARIABLES col, fs, file, last, stores, zr, site, xp, procs, dl, req, ft, gfs, pd

vars == <<col, fs, file, last, stores, zr, site, xp, procs, dl, req, ft, gfs, pd>>

\* the state of the handlers that a behaviour of the storage engine alone
\* does not run
aux == <<zr, site, xp, procs, dl, req, ft, gfs, pd>>

(* ------------------------------ bounds -------------------------------- *)

\* number of Store calls in one behaviour
MaxStores == 2
\* number of distinct fill bytes of the uploaded payloads
NumBytes == 2
\* number of entries of an uploaded archive
MaxEntries == 2
\* number of single files uploaded to the server that keeps pages as PageDataDB
MaxUploads == 3
\* number of requests that run concurrently
NumProcs == 2
\* the number of upload requests of a behaviour
MaxRequests == 2
\* the number of file names classified in a behaviour
MaxClassified == 2
\* the number of calls on the GridFS bucket in a behaviour
MaxBucketOps == 3
\* the number of calls of ProcessDir in a behaviour
MaxDirs == 1

(* --------------------------- program constants ------------------------ *)

maxFileSize == 15728640

(* ------------------------------- paths -------------------------------- *)

A_MD == <<"/", "a", ".", "m", "d">>
A_HTML == <<"/", "a", ".", "h", "t", "m", "l">>
B_PNG == <<"/", "b", ".", "p", "n", "g">>
EmptyPath == <<>>

DOT_MD == <<".", "m", "d">>
DOT_HTML == <<".", "h", "t", "m", "l">>

\* the paths uploads are stored under, and the paths requests ask for
StoreURIs == {A_MD, A_HTML}
LookupURIs == {A_MD, A_HTML, B_PNG}

SetMax(S) == CHOOSE x \in S : \A y \in S : y <= x

\* path.Ext: the suffix beginning at the final dot of the final element
Ext(p) ==
  LET dots == {i \in 1..Len(p) : p[i] = "." /\ \A j \in i..Len(p) : p[j] # "/"}
  IN  IF dots = {} THEN <<>> ELSE SubSeq(p, SetMax(dots), Len(p))

\* uri[:len(uri)-len(path.Ext(uri))] + ".md"
WithExtMD(p) == SubSeq(p, 1, Len(p) - Len(Ext(p))) \o DOT_MD

DOT == <<".">>
DOTDOT == <<".", ".">>

SetMin(S) == CHOOSE x \in S : \A y \in S : x <= y

\* F applied to the value of e, which is computed once
Eval(e, F(_)) == CHOOSE r \in {F(x) : x \in {e}} : TRUE

\* the elements of a path: the runs between its slashes, empty runs included
Split(p) ==
  LET seps == {i \in 1..Len(p) : p[i] = "/"}
      n == Cardinality(seps)
      cut == [j \in 0..(n + 1) |->
                IF j = 0 THEN 0
                ELSE IF j = n + 1 THEN Len(p) + 1
                ELSE CHOOSE s \in seps : Cardinality({t \in seps : t < s}) = j - 1]
  IN  [j \in 1..(n + 1) |-> SubSeq(p, cut[j - 1] + 1, cut[j] - 1)]

\* the elements joined by slashes
RECURSIVE JoinElems(_)
JoinElems(es) ==
  IF es = <<>> THEN <<>>
  ELSE IF Len(es) = 1 THEN es[1]
  ELSE es[1] \o <<"/">> \o JoinElems(Tail(es))

\* the element loop of path.Clean: empty and "." elements are dropped, ".."
\* removes the element before it, is dropped at the root and is kept at the
\* head of a path that is not rooted
RECURSIVE CleanElems(_, _, _)
CleanElems(es, out, rooted) ==
  IF es = <<>> THEN out
  ELSE LET e == Head(es)
       IN  IF e = <<>> \/ e = DOT THEN CleanElems(Tail(es), out, rooted)
           ELSE IF e # DOTDOT THEN CleanElems(Tail(es), Append(out, e), rooted)
           ELSE IF out # <<>> /\ out[Len(out)] # DOTDOT
           THEN CleanElems(Tail(es), SubSeq(out, 1, Len(out) - 1), rooted)
           ELSE IF rooted THEN CleanElems(Tail(es), out, rooted)
           ELSE CleanElems(Tail(es), Append(out, DOTDOT), rooted)

\* path.Clean and filepath.Clean
Clean(p) ==
  Eval(p, LAMBDA q :
    IF q = <<>> THEN DOT
    ELSE Eval(Split(q), LAMBDA es :
           Eval(CleanElems(es, <<>>, q[1] = "/"), LAMBDA out :
             IF q[1] = "/" THEN <<"/">> \o JoinElems(out)
             ELSE IF out = <<>> THEN DOT ELSE JoinElems(out))))

\* path.Base of a path that does not end in a slash
Base(p) == IF p = <<>> THEN DOT ELSE LET es == Split(p) IN es[Len(es)]

\* filepath.Rel after the two paths are cleaned: cb and targ are the cleaned
\* paths, B and T their elements, B without elements if cb is "."
RelElems(cb, targ, B, T) ==
  LET base == IF cb = DOT THEN <<>> ELSE cb
      baseSlashed == base # <<>> /\ base[1] = "/"
      targSlashed == targ[1] = "/"
      short == IF Len(B) < Len(T) THEN Len(B) ELSE Len(T)
      k == SetMax({n \in 0..short : \A i \in 1..n : B[i] = T[i]})
      up == [i \in 1..(Len(B) - k) |-> DOTDOT]
  IN  IF targ = cb THEN [err |-> "nil", path |-> DOT]
      ELSE IF baseSlashed # targSlashed
      THEN [err |-> "Rel: can't make relative", path |-> <<>>]
      ELSE IF k < Len(B) /\ k < Len(T) /\ B[k + 1] = DOTDOT
      THEN [err |-> "Rel: can't make relative", path |-> <<>>]
      ELSE [err |-> "nil", path |-> JoinElems(up \o SubSeq(T, k + 1, Len(T)))]

\* filepath.Rel(basepath, targpath) for a targpath that is not cleaned to ".":
\* the error and the relative path
Rel(basepath, targpath) ==
  Eval(<<Clean(basepath), Clean(targpath)>>, LAMBDA c :
    Eval(<<IF c[1] = DOT THEN <<>> ELSE Split(c[1]), Split(c[2])>>, LAMBDA e :
      RelElems(c[1], c[2], e[1], e[2])))

(* ------------------------------ payloads ------------------------------ *)

NoContent == [len |-> 0, byte |-> 0]
SizeSet == {1, maxFileSize - 1, maxFileSize, maxFileSize + 1}
Payloads == {NoContent} \cup [len : SizeSet, byte : 1..NumBytes]
ZeroTime == 0

\* the uploaded source files: content and modification time; every source
\* file has a modification time of its own, none the zero time
SourceFiles == {[data |-> d, mod |-> d.byte + 1] : d \in Payloads}

\* mimetype.DetectFile / mimetype.DetectReader: sniffed from the content
DetectMime(d) == IF d.byte = 1 THEN "text/plain" ELSE "application/octet-stream"

(* --------------------------- MongoFile values ------------------------- *)

ZeroFile ==
  [URI |-> EmptyPath, Filesize |-> 0, LastMod |-> ZeroTime, Content |-> NoContent,
   IsMD |-> FALSE, IsLocal |-> FALSE, Mime |-> ""]

\* a path of the file system that names no file
NoFile == [len |-> -1, byte |-> 0]

URIRoot == <<"f", "i", "l", "e", "s">>

\* path.Join(root, uri): the non-empty elements joined by a slash and cleaned
Join(root, uri) ==
  IF uri = EmptyPath THEN Clean(root) ELSE Clean(root \o <<"/">> \o uri)

DiskPaths == {Join(URIRoot, u) : u \in StoreURIs \cup LookupURIs}

(* ------------------------------ documents ----------------------------- *)

EmptyDoc ==
  [name |-> EmptyPath, uri |-> EmptyPath, size |-> 0, last_mod |-> ZeroTime,
   content |-> NoContent, is_md |-> FALSE, is_local |-> FALSE, mimetype |-> ""]

AllFields == {"uri", "size", "last_mod", "content", "is_md", "is_local", "mimetype"}

\* bson.M{"$set": p}: p marshalled with omitempty, so only the fields of p
\* that are not the zero value are written to the document
SetFields(d, p) ==
  [name     |-> d.name,
   uri      |-> IF p.URI = EmptyPath THEN d.uri ELSE p.URI,
   size     |-> IF p.Filesize = 0 THEN d.size ELSE p.Filesize,
   last_mod |-> IF p.LastMod = ZeroTime THEN d.last_mod ELSE p.LastMod,
   content  |-> IF p.Content.len = 0 THEN d.content ELSE p.Content,
   is_md    |-> IF p.IsMD THEN TRUE ELSE d.is_md,
   is_local |-> IF p.IsLocal THEN TRUE ELSE d.is_local,
   mimetype |-> IF p.Mime = "" THEN d.mimetype ELSE p.Mime]

\* Decode(p) of a document read under a projection F: the fields the
\* document holds overwrite those of p, the others keep p's values
Decode(p, d, F) ==
  [URI      |-> IF "uri" \in F /\ d.uri # EmptyPath THEN d.uri ELSE p.URI,
   Filesize |-> IF "size" \in F /\ d.size # 0 THEN d.size ELSE p.Filesize,
   LastMod  |-> IF "last_mod" \in F /\ d.last_mod # ZeroTime THEN d.last_mod ELSE p.LastMod,
   Content  |-> IF "content" \in F /\ d.content.len # 0 THEN d.content ELSE p.Content,
   IsMD     |-> IF "is_md" \in F /\ d.is_md THEN TRUE ELSE p.IsMD,
   IsLocal  |-> IF "is_local" \in F /\ d.is_local THEN TRUE ELSE p.IsLocal,
   Mime     |-> IF "mimetype" \in F /\ d.mimetype # "" THEN d.mimetype ELSE p.Mime]

\* col.FindOne(bson.M{"uri": uri}): index of the first match, 0 if none
FindOne(c, uri) ==
  LET hits == {i \in 1..Len(c) : c[i].uri = uri}
  IN  IF hits = {} THEN 0 ELSE SetMin(hits)

RemoveAt(c, i) == SubSeq(c, 1, i - 1) \o SubSeq(c, i + 1, Len(c))

\* an UpdateOne whose filter matches every document
UpdateOneUpsert_AnyDocument(c, name, p) ==
  LET hits == {i \in 1..Len(c) : TRUE}
  IN  IF hits # {}
      THEN [c EXCEPT ![SetMin(hits)] = SetFields(@, p)]
      ELSE Append(c, SetFields([EmptyDoc EXCEPT !.name = name], p))

\* col.UpdateOne(bson.M{"name": name}, bson.M{"$set": p}, upsert): the first
\* document whose field name matches is updated; if there is none, a document
\* made of the filter's field and the $set fields is inserted
UpdateOneUpsert(c, name, p) ==
  LET hits == {i \in 1..Len(c) : c[i].name = name}
  IN  IF hits # {}
      THEN [c EXCEPT ![SetMin(hits)] = SetFields(@, p)]
      ELSE Append(c, SetFields([EmptyDoc EXCEPT !.name = name], p))

(* ------------------------- MongoFile operations ----------------------- *)

\* MongoFile.Store(reader): the error, the collection and the file system it
\* leaves, and whether the reader was read
Store(c, f, p, reader) ==
  IF p.URI = EmptyPath \/ p.Filesize = 0
  THEN [err |-> "ErrInvalid", col |-> c, fs |-> f, consumed |-> FALSE]
  ELSE IF p.Filesize > maxFileSize
  THEN [err |-> "nil",
        col |-> UpdateOneUpsert(c, p.URI, [p EXCEPT !.IsLocal = TRUE]),
        fs |-> [f EXCEPT ![Join(URIRoot, p.URI)] = reader],
        consumed |-> TRUE]
  ELSE [err |-> "nil",
        col |-> UpdateOneUpsert(c, p.URI, [p EXCEPT !.Content = reader, !.IsLocal = FALSE]),
        fs |-> f,
        consumed |-> TRUE]

\* MongoFile.Open(): the error, the bytes of the returned reader and p
Open(c, f, p) ==
  IF p.IsLocal
  THEN IF f[Join(URIRoot, p.URI)] = NoFile
       THEN [err |-> "ErrNotExist", data |-> NoFile, p |-> p]
       ELSE [err |-> "nil", data |-> f[Join(URIRoot, p.URI)], p |-> p]
  ELSE LET i == FindOne(c, p.URI)
       IN  IF i = 0
           THEN [err |-> "ErrNoDocuments", data |-> NoFile, p |-> p]
           ELSE LET q == Decode(p, c[i], {"content"})
                IN  [err |-> "nil", data |-> q.Content, p |-> q]

\* blackfriday.Run: the HTML rendered from the markdown bytes
Run(data) == [html |-> data]

NoPage == [Title |-> EmptyPath, Content |-> Run(NoFile), LastMod |-> ZeroTime]

\* ToPage without the check of the markdown flag
ToPage_NoFlagCheck(c, f, p) ==
  LET i == FindOne(c, p.URI)
  IN  IF i = 0
      THEN [err |-> "ErrNoDocuments", page |-> NoPage, p |-> p, read |-> TRUE]
      ELSE LET q == Decode(p, c[i], AllFields)
               onDisk == f[Join(URIRoot, q.URI)]
               r == IF q.IsLocal THEN [q EXCEPT !.Content = onDisk] ELSE q
           IN  IF q.IsLocal /\ onDisk = NoFile
               THEN [err |-> "ErrNotExist", page |-> NoPage, p |-> q, read |-> TRUE]
               ELSE [err |-> "nil",
                     page |-> [Title |-> r.URI, Content |-> Run(r.Content),
                               LastMod |-> r.LastMod],
                     p |-> r, read |-> TRUE]

\* MongoFile.ToPage(): the error, the page, p, and whether the store was read
ToPage(c, f, p) ==
  IF ~p.IsMD
  THEN [err |-> "ErrNotMD", page |-> NoPage, p |-> p, read |-> FALSE]
  ELSE LET i == FindOne(c, p.URI)
       IN  IF i = 0
           THEN [err |-> "ErrNoDocuments", page |-> NoPage, p |-> p, read |-> TRUE]
           ELSE LET q == Decode(p, c[i], AllFields)
                    onDisk == f[Join(URIRoot, q.URI)]
                    r == IF q.IsLocal THEN [q EXCEPT !.Content = onDisk] ELSE q
                IN  IF q.IsLocal /\ onDisk = NoFile
                    THEN [err |-> "ErrNotExist", page |-> NoPage, p |-> q, read |-> TRUE]
                    ELSE [err |-> "nil",
                          page |-> [Title |-> r.URI, Content |-> Run(r.Content),
                                    LastMod |-> r.LastMod],
                          p |-> r, read |-> TRUE]

\* Delete that reports a missing document as an error
Delete_ErrOnMissing(c, f, p) ==
  LET i == FindOne(c, p.URI)
  IN  IF i = 0
      THEN [err |-> "ErrNoDocuments", col |-> c, fs |-> f, p |-> p, found |-> FALSE]
      ELSE LET q == Decode(p, c[i], {"is_local", "uri"})
               disk == Join(URIRoot, q.URI)
           IN  IF q.IsLocal /\ f[disk] = NoFile
               THEN [err |-> "ErrNotExist", col |-> RemoveAt(c, i), fs |-> f, p |-> q,
                     found |-> TRUE]
               ELSE [err |-> "nil", col |-> RemoveAt(c, i),
                     fs |-> IF q.IsLocal THEN [f EXCEPT ![disk] = NoFile] ELSE f,
                     p |-> q, found |-> TRUE]

\* MongoFile.Delete(): the error, the collection and the file system it
\* leaves, p, and whether a document was found
Delete(c, f, p) ==
  LET i == FindOne(c, p.URI)
  IN  IF i = 0
      THEN [err |-> "nil", col |-> c, fs |-> f, p |-> p, found |-> FALSE]
      ELSE LET q == Decode(p, c[i], {"is_local", "uri"})
               disk == Join(URIRoot, q.URI)
           IN  IF ~q.IsLocal
               THEN [err |-> "nil", col |-> RemoveAt(c, i), fs |-> f, p |-> q,
                     found |-> TRUE]
               ELSE IF f[disk] = NoFile
               THEN [err |-> "ErrNotExist", col |-> RemoveAt(c, i), fs |-> f, p |-> q,
                     found |-> TRUE]
               ELSE [err |-> "nil", col |-> RemoveAt(c, i),
                     fs |-> [f EXCEPT ![disk] = NoFile], p |-> q, found |-> TRUE]

\* GetFromDB that searches the markdown file after a miss of any extension
GetFromDB_AnyExt(c, uri) ==
  LET i == FindOne(c, uri)
      md == WithExtMD(uri)
      j == FindOne(c, md)
  IN  IF i # 0
      THEN [err |-> "nil", file |-> Decode(ZeroFile, c[i], AllFields \ {"content"}),
            lookups |-> 1]
      ELSE IF j = 0
      THEN [err |-> "ErrNoDocuments", file |-> ZeroFile, lookups |-> 2]
      ELSE [err |-> "nil",
            file |-> [Decode(ZeroFile, c[j], AllFields \ {"content"})
                         EXCEPT !.URI = md, !.IsMD = TRUE],
            lookups |-> 2]

\* GetFromDB(uri): the error, the file and the number of FindOne calls made
GetFromDB(c, uri) ==
  LET i == FindOne(c, uri)
      md == WithExtMD(uri)
      j == FindOne(c, md)
  IN  IF i # 0
      THEN [err |-> "nil", file |-> Decode(ZeroFile, c[i], AllFields \ {"content"}),
            lookups |-> 1]
      ELSE IF Ext(uri) = DOT_HTML
      THEN IF j = 0
           THEN [err |-> "ErrNoDocuments", file |-> ZeroFile, lookups |-> 2]
           ELSE [err |-> "nil",
                 file |-> [Decode(ZeroFile, c[j], AllFields \ {"content"})
                              EXCEPT !.URI = md, !.IsMD = TRUE],
                 lookups |-> 2]
      ELSE [err |-> "ErrNoDocuments", file |-> ZeroFile, lookups |-> 1]

\* handleDelete: the file GetFromDB returns for the requested path is
\* deleted; the status of the response, the error, and the collection and
\* the file system the request leaves
handleDelete(c, f, name) ==
  LET g == GetFromDB(c, name)
      d == Delete(c, f, g.file)
  IN  IF g.err = "ErrNoDocuments"
      THEN [status |-> 404, err |-> g.err, col |-> c, fs |-> f, p |-> g.file]
      ELSE IF g.err # "nil"
      THEN [status |-> 500, err |-> g.err, col |-> c, fs |-> f, p |-> g.file]
      ELSE [status |-> IF d.err # "nil" THEN 500 ELSE 204, err |-> d.err,
            col |-> d.col, fs |-> d.fs, p |-> g.file]

(* --------------------------- archive import --------------------------- *)

\* the name of the uploaded archive and the names of its entries
EVIL_ZIP == <<"e", "v", "i", "l", ".", "z", "i", "p">>
TmpDir == <<"/", "t", "m", "p", "/", "t", "m", "p", "1">>

N_DIR == <<"e", "v", "i", "l", "/">>
N_IN_MD == <<"e", "v", "i", "l", "/", "a", ".", "m", "d">>
N_TOP_MD == <<"a", ".", "m", "d">>
N_PNG == <<"b", ".", "p", "n", "g">>
N_TMPL == <<"e", "v", "i", "l", "/", "t", ".", "t", "m", "p", "l">>
N_ABS == <<"/", "b", ".", "p", "n", "g">>
N_TRAV == <<".", ".", "/", ".", ".", "/", "e", "t", "c", "/", "p", "a", "s", "s", "w", "d">>

ZipNames == {EVIL_ZIP}
FileNames == {N_IN_MD, N_TOP_MD, N_PNG, N_TMPL, N_ABS, N_TRAV}

\* the uncompressed contents of the file entries: an empty file, two small
\* files and a file above the threshold
ZipPayloads ==
  {NoContent, [len |-> 1, byte |-> 1], [len |-> 1, byte |-> 2],
   [len |-> maxFileSize + 1, byte |-> 2]}

\* zip.File: Name, the directory bit of its mode, the uncompressed bytes
\* (UncompressedSize64 is their length), what the bytes are (raw bytes of an
\* uploaded file, a page rendered by the page template, the output of the
\* index template) and Modified
ZipEntries ==
  {[name |-> N_DIR, dir |-> TRUE, data |-> NoContent, kind |-> "dir", mod |-> 1]}
    \cup {[name |-> n, dir |-> FALSE, data |-> d, kind |-> "raw", mod |-> d.byte + 1] :
             n \in FileNames, d \in ZipPayloads}

\* zr.File: the entries of an archive, in archive order
Archives == UNION {[1..n -> ZipEntries] : n \in 0..MaxEntries}

\* zf.FileInfo().IsDir(): the mode has the directory bit, which the name of
\* an entry ending in a slash sets
IsDir(zf) == zf.dir \/ (zf.name # <<>> /\ zf.name[Len(zf.name)] = "/")

\* strings.HasPrefix
HasPrefix(s, prefix) ==
  Len(s) >= Len(prefix) /\ SubSeq(s, 1, Len(prefix)) = prefix

\* handleUploadZipGetUri(zipName, fileName): the error and the uri
handleUploadZipGetUri(zipName, fileName) ==
  LET b == Base(zipName)
      z == SubSeq(b, 1, Len(b) - Len(Ext(b)))
      r == Rel(z, fileName)
  IN  IF r.err # "nil" THEN r
      ELSE IF HasPrefix(r.path, DOTDOT) THEN Rel(DOTDOT, r.path)
      ELSE r

\* iterateFunc that hands only the markdown entries to Store
iterateFunc_OnlyMarkdown(c, f, zipName, zf) ==
  Eval(handleUploadZipGetUri(zipName, zf.name), LAMBDA g :
    Eval([ZeroFile EXCEPT !.URI = <<"/">> \o g.path, !.Filesize = zf.data.len,
                          !.LastMod = zf.mod, !.Mime = DetectMime(zf.data),
                          !.IsMD = (Ext(Base(zf.name)) = DOT_MD)], LAMBDA p :
      IF g.err # "nil" \/ ~p.IsMD
      THEN [err |-> g.err, p |-> ZeroFile, called |-> FALSE, col |-> c, fs |-> f,
            consumed |-> FALSE]
      ELSE Eval(Store(c, f, p, zf.data), LAMBDA r :
             [err |-> r.err, p |-> p, called |-> TRUE, col |-> r.col, fs |-> r.fs,
              consumed |-> r.consumed])))

\* iterateFunc(zf) of handleUploadZip: the error, the MongoFile it built,
\* whether Store was called on it, and the store it leaves
iterateFunc(c, f, zipName, zf) ==
  Eval(handleUploadZipGetUri(zipName, zf.name), LAMBDA g :
    Eval([ZeroFile EXCEPT !.URI = <<"/">> \o g.path, !.Filesize = zf.data.len,
                          !.LastMod = zf.mod, !.Mime = DetectMime(zf.data),
                          !.IsMD = (Ext(Base(zf.name)) = DOT_MD)], LAMBDA p :
      IF g.err # "nil"
      THEN [err |-> g.err, p |-> ZeroFile, called |-> FALSE, col |-> c, fs |-> f,
            consumed |-> FALSE]
      ELSE Eval(Store(c, f, p, zf.data), LAMBDA r :
             [err |-> r.err, p |-> p, called |-> TRUE, col |-> r.col, fs |-> r.fs,
              consumed |-> r.consumed])))

\* handleUploadZip: the loop over zr.File from the first entry to the first
\* error: the error it returns and the store it leaves
RECURSIVE handleUploadZip(_, _, _, _)
handleUploadZip(c, f, zipName, File) ==
  IF File = <<>> THEN [err |-> "nil", col |-> c, fs |-> f]
  ELSE IF IsDir(Head(File)) THEN handleUploadZip(c, f, zipName, Tail(File))
  ELSE Eval(iterateFunc(c, f, zipName, Head(File)), LAMBDA r :
         IF r.err # "nil"
         THEN [err |-> r.err, col |-> r.col, fs |-> r.fs]
         ELSE handleUploadZip(r.col, r.fs, zipName, Tail(File)))

\* no import is running
NoImport ==
  [state |-> "idle", name |-> EmptyPath, File |-> <<>>, pos |-> 0, err |-> "nil",
   applied |-> <<>>]

\* the files the entries of the archives can be written to
ZipDiskPaths ==
  {Join(URIRoot, <<"/">> \o handleUploadZipGetUri(z, n).path) :
     <<z, n>> \in {zn \in ZipNames \X FileNames :
                    handleUploadZipGetUri(zn[1], zn[2]).err = "nil"}}

(* ------------------------------ file types ---------------------------- *)

Upper ==
  <<"A", "B", "C", "D", "E", "F", "G", "H", "I", "J", "K", "L", "M", "N", "O", "P",
    "Q", "R", "S", "T", "U", "V", "W", "X", "Y", "Z">>
Lower ==
  <<"a", "b", "c", "d", "e", "f", "g", "h", "i", "j", "k", "l", "m", "n", "o", "p",
    "q", "r", "s", "t", "u", "v", "w", "x", "y", "z">>

\* strings.ToLower
ToLower(str) ==
  [i \in 1..Len(str) |->
     IF \E k \in 1..Len(Upper) : Upper[k] = str[i]
     THEN Lower[CHOOSE k \in 1..Len(Upper) : Upper[k] = str[i]]
     ELSE str[i]]

DOT_CSS == <<".", "c", "s", "s">>
DOT_JS == <<".", "j", "s">>
DOT_ICO == <<".", "i", "c", "o">>
DOT_SVG == <<".", "s", "v", "g">>
DOT_TMPL == <<".", "t", "m", "p", "l">>
DOT_GOHTML == <<".", "g", "o", "h", "t", "m", "l">>
DOT_ZIP == <<".", "z", "i", "p">>

\* filetypeFromFile comparing the extension as it is written
filetypeFromFile_CaseSensitive(f) ==
  LET ext == Ext(f)
  IN  IF ext = DOT_ZIP THEN "ZIP"
      ELSE IF ext = DOT_MD THEN "Markdown"
      ELSE IF ext \in {DOT_HTML, DOT_CSS, DOT_JS, DOT_ICO, DOT_SVG} THEN "Static"
      ELSE IF ext \in {DOT_GOHTML, DOT_TMPL} THEN "Templated"
      ELSE "Asset"

\* filetypeFromFile: the Filetype of a file, by its extension in lower case
filetypeFromFile(f) ==
  LET ext == ToLower(Ext(f))
  IN  IF ext = DOT_ZIP THEN "ZIP"
      ELSE IF ext = DOT_MD THEN "Markdown"
      ELSE IF ext \in {DOT_HTML, DOT_CSS, DOT_JS, DOT_ICO, DOT_SVG} THEN "Static"
      ELSE IF ext \in {DOT_GOHTML, DOT_TMPL} THEN "Templated"
      ELSE "Asset"

\* the constants of Filetype
Filetypes == {"ZIP", "Asset", "Markdown", "Static", "Templated"}

\* the file names given to filetypeFromFile: a stem whose last element has
\* no dot, followed by an extension written in lower case, in upper case or
\* with its first letter in upper case
TypeStems == {<<"a">>, <<"B">>, <<"d", ".", "z", "i", "p", "/", "a">>}
TypeExts ==
  {EmptyPath, DOT_ZIP, DOT_MD, DOT_HTML, DOT_CSS, DOT_JS, DOT_ICO, DOT_SVG, DOT_GOHTML,
   DOT_TMPL, <<".", "p", "n", "g">>, <<".", "h", "t", "m">>, <<".", "m", "d", "x">>}
ToUpper(str) ==
  [i \in 1..Len(str) |->
     IF \E k \in 1..Len(Lower) : Lower[k] = str[i]
     THEN Upper[CHOOSE k \in 1..Len(Lower) : Lower[k] = str[i]]
     ELSE str[i]]
Written(ext, case) ==
  IF case = "lower" THEN ext
  ELSE IF case = "upper" THEN ToUpper(ext)
  ELSE [i \in 1..Len(ext) |-> IF i = 2 THEN ToUpper(ext)[i] ELSE ext[i]]
NoType == [name |-> EmptyPath, ext |-> EmptyPath, case |-> "lower", type |-> "none", n |-> 0]

(* ------------------ the server that keeps pages as PageDataDB ---------- *)

StaticURL == <<"s", "t", "a", "t", "i", "c">>
TmplURL == <<"t", "m", "p", "l">>
PageURL == <<"p", "a", "g", "e", "s">>
index == <<"i", "n", "d", "e", "x", ".", "h", "t", "m", "l">>

S_CSS == <<"s", ".", "c", "s", "s">>
INDEX_MD == <<"i", "n", "d", "e", "x", ".", "m", "d">>
T_PAGE == <<"p", "a", "g", "e", ".", "t", "m", "p", "l">>
T_INDEX == <<"i", "n", "d", "e", "x", ".", "g", "o", "h", "t", "m", "l">>
N_ZIP == <<"n", ".", "z", "i", "p">>

\* MatchesExt with .html as a key of Markdown
MatchesExt_HtmlIsMarkdown(t, name) ==
  LET ext == Ext(name)
      m == IF ext \in {DOT_GOHTML, DOT_TMPL} THEN "Template"
           ELSE IF ext \in {DOT_MD, DOT_HTML} THEN "Markdown"
           ELSE IF ext = DOT_ZIP THEN "Zipped"
           ELSE "Static"
  IN  m = t

\* Type.MatchesExt: the map gives Static, the zero Type, for every extension
\* that is not one of its keys
MatchesExt(t, name) ==
  LET ext == Ext(name)
      m == IF ext \in {DOT_GOHTML, DOT_TMPL} THEN "Template"
           ELSE IF ext = DOT_MD THEN "Markdown"
           ELSE IF ext = DOT_ZIP THEN "Zipped"
           ELSE "Static"
  IN  m = t

\* a server without static files, templates and pages
EmptySite == [stat |-> {}, tmpl |-> {}, pages |-> <<>>]

\* os.Create(path.Join(dir, name)) and io.Copy: the file of that name is
\* replaced
WriteFile(dir, name, rc) ==
  {x \in dir : x.name # name} \cup {[name |-> name, data |-> rc.data, kind |-> rc.kind]}

handleUploadStatic(s, name, rc) == [s EXCEPT !.stat = WriteFile(@, name, rc)]

handleUploadTmpl(s, name, rc) == [s EXCEPT !.tmpl = WriteFile(@, name, rc)]

\* PageDataDB.TrimExt
TrimExt(name) == SubSeq(name, 1, Len(name) - Len(Ext(name)))

\* PageDataDB.WriteToDB: content and last_mod of the first page of that name
\* are set; if there is none, a page is inserted
WriteToDB(pages, p) ==
  LET hits == {i \in 1..Len(pages) : pages[i].Name = p.Name}
  IN  IF hits # {}
      THEN [pages EXCEPT ![SetMin(hits)] = [@ EXCEPT !.Content = p.Content,
                                                    !.LastMod = p.LastMod]]
      ELSE Append(pages, p)

handleUploadPage(s, name, rc, mod) ==
  [s EXCEPT !.pages = WriteToDB(@, [Name |-> TrimExt(name), Content |-> rc,
                                    LastMod |-> mod])]

\* the switch of handleUpload and of handleUploadZip over the type of the
\* name: the server it leaves and where the file went; an archive is no case
\* of the switch inside an archive
uploadByType(s, name, rc, mod) ==
  IF MatchesExt("Static", name)
  THEN [site |-> handleUploadStatic(s, name, rc), dest |-> "static"]
  ELSE IF MatchesExt("Template", name)
  THEN [site |-> handleUploadTmpl(s, name, rc), dest |-> "tmpl"]
  ELSE IF MatchesExt("Markdown", name)
  THEN [site |-> handleUploadPage(s, name, rc, mod), dest |-> "page"]
  ELSE [site |-> s, dest |-> "none"]

\* handleUploadZip of the server that keeps pages as PageDataDB: the error,
\* the server it leaves, and for every entry where it went and under which
\* name
RECURSIVE handleUploadZipByType(_, _, _)
handleUploadZipByType(s, File, log) ==
  IF File = <<>> THEN [err |-> "nil", site |-> s, log |-> log]
  ELSE LET zf == Head(File)
           name == Base(zf.name)
           r == uploadByType(s, name, [data |-> zf.data, kind |-> zf.kind], zf.mod)
       IN  IF IsDir(zf)
           THEN handleUploadZipByType(s, Tail(File),
                  Append(log, [name |-> zf.name, dest |-> "dir", key |-> <<>>]))
           ELSE handleUploadZipByType(r.site, Tail(File),
                  Append(log, [name |-> zf.name, dest |-> r.dest, key |-> name]))

\* listAllPages: the names of the pages of the collection
listAllPages(s) == {s.pages[i].Name : i \in 1..Len(s.pages)}

\* the characters of the file names, in byte order
Alphabet ==
  <<".", "/", "a", "b", "c", "d", "e", "f", "g", "h", "i", "j", "k", "l", "m", "n",
    "o", "p", "q", "r", "s", "t", "u", "v", "w", "x", "y", "z">>

CharRank(c) == CHOOSE i \in 1..Len(Alphabet) : Alphabet[i] = c

\* the lexical order of file names
RECURSIVE Less(_, _)
Less(a, b) ==
  IF b = <<>> THEN FALSE
  ELSE IF a = <<>> THEN TRUE
  ELSE IF a[1] = b[1] THEN Less(Tail(a), Tail(b))
  ELSE CharRank(a[1]) < CharRank(b[1])

\* the files of a directory in lexical order
RECURSIVE SortByName(_)
SortByName(S) ==
  IF S = {} THEN <<>>
  ELSE LET m == CHOOSE x \in S : \A y \in S \ {x} : Less(x.name, y.name)
       IN  <<m>> \o SortByName(S \ {m})

\* filepath.Walk(StatDir): the directory itself, then its files in lexical
\* order
Walk(s) ==
  LET files == SortByName(s.stat)
  IN  <<[name |-> StaticURL, dir |-> TRUE, data |-> NoContent, kind |-> "dir"]>>
        \o [i \in 1..Len(files) |->
              [name |-> files[i].name, dir |-> FALSE, data |-> files[i].data,
               kind |-> files[i].kind]]

\* handleDownloadAddStaticFiles: the entries written and indexFound
RECURSIVE handleDownloadAddStaticFiles(_, _, _)
handleDownloadAddStaticFiles(infos, w, indexFound) ==
  IF infos = <<>> THEN [err |-> "nil", w |-> w, indexFound |-> indexFound]
  ELSE LET info == Head(infos)
           isIndex == ~indexFound /\ info.name = index
           h == [name |-> IF isIndex THEN index ELSE Join(StaticURL, info.name),
                 dir |-> info.dir, data |-> info.data, kind |-> info.kind, mod |-> 1]
       IN  handleDownloadAddStaticFiles(Tail(infos), Append(w, h), indexFound \/ isIndex)

\* a template of that name is defined by the files of the template directory
Defines(tmpl, t) == \E x \in tmpl : TrimExt(x.name) = t

\* handleDownloadAddPageFiles: the error, the entries written and indexFound;
\* Page.CreateHTML fails if no file is in the template directory or none
\* defines the template page
RECURSIVE handleDownloadAddPageFiles(_, _, _, _)
handleDownloadAddPageFiles(pages, tmpl, w, indexFound) ==
  IF pages = <<>> THEN [err |-> "nil", w |-> w, indexFound |-> indexFound]
  ELSE LET p == Head(pages)
           pageName == p.Name \o DOT_HTML
           isIndex == ~indexFound /\ pageName = index
           h == [name |-> IF isIndex THEN index ELSE Join(PageURL, pageName),
                 dir |-> FALSE, data |-> p.Content.data, kind |-> "page",
                 mod |-> p.LastMod]
       IN  IF ~Defines(tmpl, <<"p", "a", "g", "e">>)
           THEN [err |-> "template", w |-> Append(w, h), indexFound |-> indexFound \/ isIndex]
           ELSE handleDownloadAddPageFiles(Tail(pages), tmpl, Append(w, h),
                                           indexFound \/ isIndex)

\* handleDownloadAddIndexTemplate: the entry index.html is created, then the
\* templates are parsed and the template index, if defined, is executed
handleDownloadAddIndexTemplate(tmpl, w) ==
  LET h(kind) == [name |-> index, dir |-> FALSE, data |-> NoContent, kind |-> kind,
                  mod |-> ZeroTime]
  IN  IF tmpl = {} THEN [err |-> "template", w |-> Append(w, h("empty"))]
      ELSE IF ~Defines(tmpl, <<"i", "n", "d", "e", "x">>)
      THEN [err |-> "nil", w |-> Append(w, h("empty"))]
      ELSE [err |-> "nil", w |-> Append(w, h("index"))]

\* handleDownload that adds the templated index whether or not an index was
\* found
handleDownload_AlwaysIndexTemplate(s) ==
  LET a == handleDownloadAddStaticFiles(Walk(s), <<>>, FALSE)
      b == handleDownloadAddPageFiles(s.pages, s.tmpl, a.w, a.indexFound)
      c == handleDownloadAddIndexTemplate(s.tmpl, b.w)
  IN  IF b.err # "nil" THEN [err |-> b.err, w |-> b.w]
      ELSE c

\* handleDownload: the error and the entries of portfolio.zip
handleDownload(s) ==
  LET a == handleDownloadAddStaticFiles(Walk(s), <<>>, FALSE)
      b == handleDownloadAddPageFiles(s.pages, s.tmpl, a.w, a.indexFound)
      c == handleDownloadAddIndexTemplate(s.tmpl, b.w)
  IN  IF b.err # "nil" THEN [err |-> b.err, w |-> b.w]
      ELSE IF ~b.indexFound THEN c
      ELSE [err |-> "nil", w |-> b.w]

\* nothing was uploaded, imported or exported: the latest call, the number
\* of uploads, the error and the entries of the latest export, the server
\* that was exported, the listing of the importing server before the import
\* and the log of the import
NoExport ==
  [op |-> "none", uploads |-> 0, err |-> "nil", w |-> <<>>, source |-> EmptySite,
   before |-> {}, log |-> <<>>]

\* the files uploaded one by one, and their contents
SiteUploadNames == {index, S_CSS, N_TOP_MD, INDEX_MD, T_PAGE, T_INDEX}
SitePayloads == {[len |-> 1, byte |-> 1], [len |-> 1, byte |-> 2]}

(* ------------------------- concurrent requests ------------------------ *)

\* a request that has not begun
IdleProc ==
  [op |-> "idle", pc |-> "idle", p |-> ZeroFile, src |-> NoFile, err |-> "nil",
   meta |-> ZeroFile, data |-> NoFile]

Procs == 1..NumProcs

\* the payloads the concurrent uploads store: one below and one above the
\* threshold, filled with a byte of the request's own
ProcPayloads(i) == {[len |-> n, byte |-> i + 1] : n \in {1, maxFileSize + 1}}

\* the steps of MongoFile.Store on the file system and on the collection:
\* os.Create truncates the file, io.Copy writes the reader to it, UpdateOne
\* writes the document
StoreCreate(f, p) == [f EXCEPT ![Join(URIRoot, p.URI)] = NoContent]

StoreCopy(f, p, reader) == [f EXCEPT ![Join(URIRoot, p.URI)] = reader]

StoreUpdate(c, p) == UpdateOneUpsert(c, p.URI, p)

\* the steps of MongoFile.Delete: FindOneAndDelete decoded into p, then
\* os.Remove
DeleteFind(c, p) ==
  LET i == FindOne(c, p.URI)
  IN  IF i = 0 THEN [found |-> FALSE, col |-> c, p |-> p]
      ELSE [found |-> TRUE, col |-> RemoveAt(c, i),
            p |-> Decode(p, c[i], {"is_local", "uri"})]

DeleteRemove(f, p) ==
  LET disk == Join(URIRoot, p.URI)
  IN  IF f[disk] = NoFile THEN [err |-> "ErrNotExist", fs |-> f]
      ELSE [err |-> "nil", fs |-> [f EXCEPT ![disk] = NoFile]]

(* -------------------------- serving an asset -------------------------- *)

\* the number of bytes mimetype.DetectReader reads at most
readLimit == 3072

\* the lengths of the stored assets: shorter than, as long as and longer than
\* the bytes the MIME detection reads
AssetSizes == {1, readLimit, readLimit + 1, 2 * readLimit, 3 * readLimit}

\* the numbers of bytes DownloadToStream hands to one Write of the pipe
WriteSizes == {readLimit, 2 * readLimit}

\* no Write of the pipe is pending
NoWrite == [g |-> 0, from |-> 0, to |-> 0]

\* a goroutine that was not started
NoWriter == [st |-> "off", pos |-> 0, err |-> "nil"]

\* no asset was requested: the step of handleAsset, the length of the stored
\* file, the two goroutines that download it to the pipe, the pending Write,
\* whether the write side was closed, the number of bytes the detection has
\* read, and the ranges of bytes of the file written to the response
NoDownload ==
  [phase |-> "idle", n |-> 0, w |-> <<NoWriter, NoWriter>>, cur |-> NoWrite,
   closed |-> FALSE, sniffed |-> 0, out |-> <<>>]

Min(a, b) == IF a < b THEN a ELSE b

\* the ranges of bytes read so far, with one more range read after them
AppendRange(out, from, to) ==
  IF out # <<>> /\ out[Len(out)].to = from
  THEN [out EXCEPT ![Len(out)].to = to]
  ELSE Append(out, [from |-> from, to |-> to])

\* a Read of the pipe that takes at most max bytes of the pending Write: the
\* Write returns once all its bytes are read
PipeRead(d, max) ==
  LET take == Min(max, d.cur.to - d.cur.from)
      rest == [d.cur EXCEPT !.from = @ + take]
  IN  IF rest.from = rest.to
      THEN [d EXCEPT !.cur = NoWrite, !.w[d.cur.g].pos = d.cur.to]
      ELSE [d EXCEPT !.cur = rest]

(* ------------------ the server that keeps files as GridFSFile ---------- *)

\* the zero ObjectID, which no file of the bucket has
ZeroID == 0
\* MetaData as a document: Type and Modified are omitempty
NoMeta == [Type |-> 0, Modified |-> ZeroTime]
BucketNames == {<<"a">>, <<"b">>}
BucketPayloads == {NoContent, [len |-> 1, byte |-> 1], [len |-> 1, byte |-> 2]}
BucketMetas == {NoMeta, [Type |-> 1, Modified |-> 1]}
NoBucket ==
  [files |-> <<>>, op |-> "none", name |-> EmptyPath, status |-> 0, err |-> "nil", n |-> 0]

\* bucket.Find(f): the files matching f as a filter document; id is not an
\* exported field and is no part of the document, Name and Size are always
\* part of it and MetaData is an embedded document
BucketFind(files, f) ==
  SelectSeq(files, LAMBDA d : /\ d.filename = f.Name
                              /\ d.length = f.Size
                              /\ d.metadata = f.MetaData)

\* GridFSFile.Read: the error and the file read; Decode sets the exported
\* fields and leaves id as it was
GridFSFileRead(files, f) ==
  IF f.id # ZeroID THEN [err |-> "nil", f |-> f]
  ELSE LET cur == BucketFind(files, f)
       IN  IF cur = <<>> THEN [err |-> "ErrFileNotFound", f |-> f]
           ELSE [err |-> "nil",
                 f |-> [f EXCEPT !.Name = cur[1].filename, !.Size = cur[1].length,
                                 !.MetaData = cur[1].metadata]]

\* bucket.UploadFromStream: a new file with a new id
UploadFromStream(files, name, data, meta) ==
  Append(files, [id |-> Len(files) + 1, filename |-> name, length |-> data.len,
                 byte |-> data.byte, metadata |-> meta])

\* GridFSFile.Upload
GridFSFileUpload(files, f, data) ==
  [err |-> "nil", files |-> UploadFromStream(files, f.Name, data, f.MetaData)]

\* bucket.Delete(id)
BucketDelete(files, id) ==
  IF \E i \in 1..Len(files) : files[i].id = id
  THEN [err |-> "nil", files |-> SelectSeq(files, LAMBDA d : d.id # id)]
  ELSE [err |-> "ErrFileNotFound", files |-> files]

\* GridFSFile.Delete
GridFSFileDelete(files, f) ==
  LET r == GridFSFileRead(files, f)
  IN  IF r.err # "nil" THEN [err |-> r.err, files |-> files]
      ELSE BucketDelete(files, r.f.id)

\* handleDelete of the GridFS server: the condition is
\* (!errors.Is(err, ErrFileNotFound) && errNotFound(c, err)) || errStatus(c, 500, err)
handleDeleteFile(files, asset) ==
  LET r == GridFSFileDelete(files, [id |-> ZeroID, Name |-> asset, Size |-> 0,
                                    MetaData |-> NoMeta])
      isNotFound == r.err = "ErrFileNotFound"
  IN  [files |-> r.files, err |-> r.err,
       status |-> IF ~isNotFound /\ isNotFound THEN 404
                  ELSE IF r.err # "nil" THEN 500
                  ELSE 204]

(* ------------------------------ ProcessDir ---------------------------- *)

ConfigFile == <<"c", "o", "n", "f", "i", "g", ".", "j", "s", "o", "n">>
Dir == <<"d">>
\* the files a directory may hold beside the config file
DirFiles ==
  {<<"a", ".", "m", "d">>, <<"b", ".", "p", "n", "g">>, <<"s", ".", "c", "s", "s">>,
   <<"t", ".", "g", "o", "h", "t", "m", "l">>}

\* FileType.FromFile
FromFile(f) ==
  LET ext == ToLower(Ext(f))
  IN  IF ext = DOT_MD THEN "Markdown"
      ELSE IF ext = DOT_GOHTML THEN "Templated"
      ELSE IF ext \in {DOT_HTML, <<".", "h", "t", "m">>, DOT_CSS, DOT_JS, DOT_SVG, DOT_ICO,
                       <<".", "w", "e", "b", "p">>}
      THEN "Static"
      ELSE "Asset"

\* Config.AdjustURL
AdjustURL(c) ==
  IF c.URL # EmptyPath THEN [c EXCEPT !.PredefinedURL = TRUE]
  ELSE [c EXCEPT !.PredefinedURL = FALSE,
                 !.URL = IF c.FileType = "Asset"
                         THEN Join(<<"/", "a", "s", "s", "e", "t">>, ToLower(c.Title))
                         ELSE IF c.FileType = "Markdown"
                         THEN Join(<<"/", "p", "a", "g", "e">>, ToLower(c.Title))
                         ELSE IF c.FileType = "Static"
                         THEN Join(<<"/", "s", "t", "a", "t", "i", "c">>, ToLower(c.Title))
                         ELSE IF c.FileType = "Templated"
                         THEN Join(<<"/", "t", "e", "m", "p", "l", "a", "t", "e", "s">>,
                                   ToLower(c.Title))
                         ELSE ToLower(c.Title)]

\* the Config ProcessSingle creates for a file
DefaultConfig(name) ==
  AdjustURL([Path |-> name, Title |-> Base(name), URL |-> EmptyPath,
             PredefinedURL |-> FALSE, FileType |-> FromFile(Ext(name))])

\* Config.UnmarshalJSON of an entry of the config file that names only the
\* file
ListedConfig(rel) ==
  AdjustURL([Path |-> rel, Title |-> Base(rel), URL |-> EmptyPath,
             PredefinedURL |-> FALSE, FileType |-> FromFile(rel)])

\* the Configs ProcessDir starts with: a nil map without config file
Configs(exists, listed) ==
  [nil |-> ~exists, m |-> [rel \in (IF exists THEN listed ELSE {}) |-> ListedConfig(rel)]]

\* UploadToDB: the error and the database; fail says that the call on the
\* bucket or on its collection fails. In the case Asset the error of
\* UploadFromStream is assigned to the err that `mime, err :=` declares in
\* the case, and the function returns the err declared before the switch
UploadToDB(db, config, fail) ==
  IF config.FileType = "Asset"
  THEN IF fail THEN [err |-> "nil", db |-> db]
       ELSE [err |-> "nil", db |-> Append(db, [filename |-> config.URL, type |-> "Asset"])]
  ELSE IF config.FileType \in {"Markdown", "Static"}
  THEN IF fail THEN [err |-> "upload", db |-> db]
       ELSE IF \E i \in 1..Len(db) : db[i].filename = config.URL
       THEN [err |-> "nil",
             db |-> [db EXCEPT ![SetMin({i \in 1..Len(db) : db[i].filename = config.URL})] =
                                  [filename |-> config.URL, type |-> config.FileType]]]
       ELSE [err |-> "nil",
             db |-> Append(db, [filename |-> config.URL, type |-> config.FileType])]
  ELSE [err |-> "nil", db |-> db]

\* Config.process: the error, the files left in the directory, the files
\* moved to the directory of their URL, and the database
process(c, rel, st, fail) ==
  LET u == UploadToDB(st.db, c, fail)
  IN  IF c.FileType \in {"Asset", "Markdown"}
      THEN IF u.err # "nil" THEN [st EXCEPT !.err = u.err]
           ELSE [st EXCEPT !.err = "nil", !.db = u.db, !.files = @ \ {rel}]
      ELSE IF c.FileType = "Static"
      THEN IF u.err # "nil" THEN [st EXCEPT !.err = u.err]
           ELSE [st EXCEPT !.err = "nil", !.db = u.db, !.files = @ \ {rel},
                           !.moved = @ \cup {c.URL}]
      ELSE IF c.FileType = "Templated"
      THEN [st EXCEPT !.err = "nil", !.files = @ \ {rel}, !.moved = @ \cup {c.URL}]
      ELSE [st EXCEPT !.err = "nil"]

\* processFile for a file of the directory: a file the Configs do not list
\* is processed with its default Config, which is put into the Configs if
\* the processing returned an error; that assignment panics on the nil map
processFile(rel, st, fail) ==
  IF ~st.configs.nil /\ rel \in DOMAIN st.configs.m
  THEN process(st.configs.m[rel], rel, st, fail)
  ELSE LET c == DefaultConfig(Join(Dir, rel))
           r == process(c, rel, st, fail)
       IN  IF r.err = "nil" THEN r
           ELSE IF st.configs.nil THEN [r EXCEPT !.pc = "panic"]
           ELSE [r EXCEPT !.configs.m = [x \in DOMAIN @ \cup {rel} |->
                                          IF x = rel THEN c ELSE @[x]]]

NoDir ==
  [pc |-> "idle", files |-> {}, configs |-> Configs(FALSE, {}), walk |-> <<>>,
   processed |-> {}, db |-> <<>>, moved |-> {}, err |-> "nil",
   rel |-> EmptyPath, type |-> "", fail |-> FALSE, n |-> 0]

(* ------------------------- single-file upload ------------------------- *)

\* the names of the uploaded files
X_MD == <<"x", ".", "m", "d">>
X_MD_UPPER == <<"X", ".", "M", "D">>
UploadNames == {X_MD, X_MD_UPPER, N_PNG}

\* the contents of the uploaded files: an empty file, a small file and a file
\* above the threshold
UploadPayloads ==
  {NoContent, [len |-> 1, byte |-> 1], [len |-> maxFileSize + 1, byte |-> 2]}

\* the archives uploaded by the requests
UploadArchives == {F \in Archives : Len(F) <= 1}

\* the multipart file of a request: its Filename, its bytes, its modification
\* time and, for an archive, the entries its bytes hold
FormFiles ==
  {[name |-> n, data |-> d, mod |-> d.byte + 1, File |-> <<>>] :
     n \in UploadNames, d \in UploadPayloads}
    \cup {[name |-> EVIL_ZIP, data |-> [len |-> 1, byte |-> 2], mod |-> 3, File |-> F] :
            F \in UploadArchives}

NoFormFile == [name |-> EmptyPath, data |-> NoFile, mod |-> ZeroTime, File |-> <<>>]

\* the files the uploads can be written to
UploadDiskPaths == {Join(URIRoot, <<"/">> \o n) : n \in UploadNames} \cup ZipDiskPaths

\* no request is being handled: the step of handleUpload, which of the two
\* servers handles it, its file, whether its temporary directory exists and
\* holds the saved file, the response, the MongoFile handed to Store, the
\* error of the handler, and the store as it was when the request came in
DeleteURIs ==
  {<<"/">> \o X_MD, <<"/", "x">> \o DOT_HTML, <<"/">> \o N_PNG, <<"/", "n">> \o DOT_HTML}
NoUpload ==
  [pc |-> "idle", server |-> "none", ff |-> NoFormFile, tmp |-> FALSE, saved |-> FALSE,
   uri |-> EmptyPath,
   status |-> 0, location |-> EmptyPath, p |-> ZeroFile, called |-> FALSE,
   err |-> "nil", before |-> <<>>, n |-> 0]

\* the else branch of handleUpload: the MongoFile built for the saved file,
\* the error of Store and the store it leaves
\* the else branch of handleUpload with the file name as the URI
handleUploadStore_NoSlash(c, f, ff) ==
  Eval([ZeroFile EXCEPT !.URI = ff.name, !.Filesize = ff.data.len,
                        !.LastMod = ff.mod, !.Mime = DetectMime(ff.data),
                        !.IsMD = (Ext(ff.name) = DOT_MD)], LAMBDA p :
    Eval(Store(c, f, p, ff.data), LAMBDA r :
      [err |-> r.err, p |-> p, col |-> r.col, fs |-> r.fs]))

\* the else branch of handleUpload: the MongoFile of the uploaded file and
\* its Store
handleUploadStore(c, f, ff) ==
  Eval([ZeroFile EXCEPT !.URI = <<"/">> \o ff.name, !.Filesize = ff.data.len,
                        !.LastMod = ff.mod, !.Mime = DetectMime(ff.data),
                        !.IsMD = (Ext(ff.name) = DOT_MD)], LAMBDA p :
    Eval(Store(c, f, p, ff.data), LAMBDA r :
      [err |-> r.err, p |-> p, col |-> r.col, fs |-> r.fs]))

(* ------------------------------- state -------------------------------- *)

\* the outcome of the latest call: its receiver or argument p, the bytes of
\* the reader handed to Store, and what the call returned
NoCall ==
  [op |-> "none", p |-> ZeroFile, src |-> NoFile, err |-> "nil", data |-> NoFile,
   page |-> NoPage, lookups |-> 0, consumed |-> FALSE, found |-> FALSE, read |-> FALSE]

Init ==
  /\ col = <<>>
  /\ fs = [d \in DiskPaths |-> NoFile]
  /\ file = ZeroFile
  /\ last = NoCall
  /\ stores = 0
  /\ zr = NoImport
  /\ site = EmptySite
  /\ xp = NoExport
  /\ dl = NoDownload
  /\ req = NoUpload
  /\ ft = NoType
  /\ gfs = NoBucket
  /\ pd = NoDir
  /\ procs = [i \in 0..NumProcs |-> IdleProc]

\* the MongoFile the upload handlers build for a source file
Upload(uri, size, src) ==
  [ZeroFile EXCEPT !.URI = uri, !.Filesize = size, !.LastMod = src.mod,
                   !.Mime = DetectMime(src.data), !.IsMD = (Ext(uri) = DOT_MD)]

\* the sizes a caller declares for a source file: its length, none, or (for
\* the sources of at most one byte) a negative size
DeclaredSizes(src) == {src.data.len, 0} \cup (IF src.data.len <= 1 THEN {-1} ELSE {})

\* an upload: the handler builds a fresh MongoFile and calls Store on it; the
\* file of an earlier request is gone
StoreAct ==
  /\ stores < MaxStores
  /\ \E uri \in StoreURIs \cup {EmptyPath}, src \in SourceFiles :
       \E size \in DeclaredSizes(src) :
         LET p == Upload(uri, size, src)
             r == Store(col, fs, p, src.data)
         IN  /\ col' = r.col
             /\ fs' = r.fs
             /\ last' = [NoCall EXCEPT !.op = "Store", !.p = p, !.src = src.data,
                                       !.err = r.err, !.consumed = r.consumed]
  /\ stores' = stores + 1
  /\ file' = ZeroFile
  /\ UNCHANGED aux

GetFromDBAct ==
  /\ \E uri \in LookupURIs :
       LET r == GetFromDB(col, uri)
       IN  /\ file' = r.file
           /\ last' = [NoCall EXCEPT !.op = "GetFromDB", !.p = [ZeroFile EXCEPT !.URI = uri],
                                     !.err = r.err, !.lookups = r.lookups]
  /\ UNCHANGED <<col, fs, stores>>
  /\ UNCHANGED aux

OpenAct ==
  /\ file.URI # EmptyPath
  /\ LET r == Open(col, fs, file)
     IN  /\ file' = r.p
         /\ last' = [NoCall EXCEPT !.op = "Open", !.p = file, !.err = r.err,
                                   !.data = r.data]
  /\ UNCHANGED <<col, fs, stores>>
  /\ UNCHANGED aux

ToPageAct ==
  /\ file.URI # EmptyPath
  /\ LET r == ToPage(col, fs, file)
     IN  /\ file' = r.p
         /\ last' = [NoCall EXCEPT !.op = "ToPage", !.p = file, !.err = r.err,
                                   !.page = r.page, !.read = r.read]
  /\ UNCHANGED <<col, fs, stores>>
  /\ UNCHANGED aux

\* Delete on the file a lookup returned, or on a MongoFile that only names
\* a path
DeleteAct ==
  /\ \E p \in {file} \cup {[ZeroFile EXCEPT !.URI = u] : u \in LookupURIs} :
       /\ p.URI # EmptyPath
       /\ LET r == Delete(col, fs, p)
          IN  /\ col' = r.col
              /\ fs' = r.fs
              /\ file' = r.p
              /\ last' = [NoCall EXCEPT !.op = "Delete", !.p = p, !.err = r.err,
                                        !.found = r.found]
  /\ UNCHANGED stores
  /\ UNCHANGED aux

Next == StoreAct \/ GetFromDBAct \/ OpenAct \/ ToPageAct \/ DeleteAct

Spec == Init /\ [][Next]_vars

TypeOK ==
  /\ stores \in 0..MaxStores
  /\ \A i \in 1..Len(col) : col[i].name \in StoreURIs

(* ---------------------- behaviour of an archive import ---------------- *)

InitZip ==
  /\ col = <<>>
  /\ fs = [d \in ZipDiskPaths |-> NoFile]
  /\ file = ZeroFile
  /\ last = NoCall
  /\ stores = 0
  /\ zr = NoImport
  /\ site = EmptySite
  /\ xp = NoExport
  /\ dl = NoDownload
  /\ req = NoUpload
  /\ ft = NoType
  /\ gfs = NoBucket
  /\ pd = NoDir
  /\ procs = [i \in 0..NumProcs |-> IdleProc]

\* handleUpload of a file named *.zip: the archive is saved to a temporary
\* directory, opened, and handleUploadZip reads its directory
HandleUploadZip ==
  /\ zr.state = "idle"
  /\ xp.op = "none"
  /\ \E n \in ZipNames, F \in Archives :
       zr' = [NoImport EXCEPT !.state = "running", !.name = TmpDir \o <<"/">> \o n,
                              !.File = F, !.pos = 1]
  /\ UNCHANGED <<col, fs, file, last, stores, site, xp, procs, dl, req, ft, gfs, pd>>

\* the loop of handleUploadZip going on to the next entry after an error
ZipEntry_ContinueOnError ==
  /\ zr.state = "running"
  /\ zr.pos <= Len(zr.File)
  /\ \E zf \in {zr.File[zr.pos]}, r \in {iterateFunc(col, fs, zr.name, zr.File[zr.pos])} :
         IF IsDir(zf)
         THEN /\ zr' = [zr EXCEPT !.pos = @ + 1]
              /\ UNCHANGED <<col, fs, last>>
         ELSE /\ col' = r.col
              /\ fs' = r.fs
              /\ last' = IF r.called
                         THEN [NoCall EXCEPT !.op = "Store", !.p = r.p, !.src = zf.data,
                                             !.err = r.err, !.consumed = r.consumed]
                         ELSE last
              /\ zr' = IF r.err # "nil"
                       THEN [zr EXCEPT !.pos = @ + 1]
                       ELSE [zr EXCEPT !.pos = @ + 1, !.applied = Append(@, zr.pos)]
  /\ UNCHANGED <<file, stores, site, xp, procs, dl, req, ft, gfs, pd>>

\* one iteration of the loop of handleUploadZip
ZipEntry ==
  /\ zr.state = "running"
  /\ zr.pos <= Len(zr.File)
  /\ \E zf \in {zr.File[zr.pos]}, r \in {iterateFunc(col, fs, zr.name, zr.File[zr.pos])} :
         IF IsDir(zf)
         THEN /\ zr' = [zr EXCEPT !.pos = @ + 1]
              /\ UNCHANGED <<col, fs, last>>
         ELSE /\ col' = r.col
              /\ fs' = r.fs
              /\ last' = IF r.called
                         THEN [NoCall EXCEPT !.op = "Store", !.p = r.p, !.src = zf.data,
                                             !.err = r.err, !.consumed = r.consumed]
                         ELSE last
              /\ zr' = IF r.err # "nil"
                       THEN [zr EXCEPT !.state = "returned", !.err = r.err]
                       ELSE [zr EXCEPT !.pos = @ + 1, !.applied = Append(@, zr.pos)]
  /\ UNCHANGED <<file, stores, site, xp, procs, dl, req, ft, gfs, pd>>

\* the return of handleUploadZip after the last entry
ZipReturn ==
  /\ zr.state = "running"
  /\ zr.pos > Len(zr.File)
  /\ zr' = [zr EXCEPT !.state = "returned", !.err = "nil"]
  /\ UNCHANGED <<col, fs, file, last, stores, site, xp, procs, dl, req, ft, gfs, pd>>

\* handleUpload of a file named *.zip on the server that keeps pages as
\* PageDataDB
HandleUploadZipByType ==
  /\ zr.state = "idle"
  /\ xp.op = "none"
  /\ \E F \in Archives :
       LET r == handleUploadZipByType(site, F, <<>>)
       IN  /\ site' = r.site
           /\ xp' = [NoExport EXCEPT !.op = "import", !.err = r.err, !.log = r.log]
  /\ UNCHANGED <<col, fs, file, last, stores, zr, procs, dl, req, ft, gfs, pd>>

NextZip == HandleUploadZip \/ ZipEntry \/ ZipReturn \/ HandleUploadZipByType

SpecZip == InitZip /\ [][NextZip]_vars

(* ------------- behaviour of the server with pages as PageDataDB -------- *)

InitSite ==
  /\ col = <<>>
  /\ fs = [d \in DiskPaths |-> NoFile]
  /\ file = ZeroFile
  /\ last = NoCall
  /\ stores = 0
  /\ zr = NoImport
  /\ site = EmptySite
  /\ xp = NoExport
  /\ dl = NoDownload
  /\ req = NoUpload
  /\ ft = NoType
  /\ gfs = NoBucket
  /\ pd = NoDir
  /\ procs = [i \in 0..NumProcs |-> IdleProc]

\* handleUpload of a single file that is no archive
SiteUpload ==
  /\ xp.op \in {"none", "upload"}
  /\ xp.uploads < MaxUploads
  /\ \E name \in SiteUploadNames, d \in SitePayloads :
       site' = uploadByType(site, name, [data |-> d, kind |-> "raw"], d.byte + 1).site
  /\ xp' = [xp EXCEPT !.op = "upload", !.uploads = @ + 1]
  /\ UNCHANGED <<col, fs, file, last, stores, zr, procs, dl, req, ft, gfs, pd>>

\* handleDownload: the export of the server to portfolio.zip
HandleDownload ==
  /\ xp.op \in {"none", "upload"}
  /\ LET r == handleDownload(site)
     IN  xp' = [xp EXCEPT !.op = "download", !.err = r.err, !.w = r.w, !.source = site]
  /\ UNCHANGED <<col, fs, file, last, stores, zr, site, procs, dl, req, ft, gfs, pd>>

\* the upload of the exported portfolio.zip, to the server it was exported
\* from or to a server that has nothing yet
ReImport ==
  /\ xp.op = "download"
  /\ xp.err = "nil"
  /\ \E target \in {site, EmptySite} :
       LET r == handleUploadZipByType(target, xp.w, <<>>)
       IN  /\ site' = r.site
           /\ xp' = [xp EXCEPT !.op = "reimport", !.err = r.err, !.log = r.log,
                               !.before = listAllPages(target)]
  /\ UNCHANGED <<col, fs, file, last, stores, zr, procs, dl, req, ft, gfs, pd>>

NextSite == SiteUpload \/ HandleDownload \/ ReImport

SpecSite == InitSite /\ [][NextSite]_vars

(* -------------------- behaviour of concurrent requests ---------------- *)

\* the store before the requests begin: empty, or holding the item of one
\* completed Store, below or above the threshold
InitConc ==
  /\ \E d \in {NoFile} \cup ProcPayloads(0) :
       LET p == Upload(B_PNG, d.len, [data |-> d, mod |-> d.byte + 1])
           r == Store(<<>>, [x \in DiskPaths |-> NoFile], p, d)
       IN  IF d = NoFile
           THEN /\ col = <<>>
                /\ fs = [x \in DiskPaths |-> NoFile]
                /\ procs = [i \in 0..NumProcs |-> IdleProc]
           ELSE /\ col = r.col
                /\ fs = r.fs
                /\ procs = [i \in 0..NumProcs |->
                              IF i = 0
                              THEN [IdleProc EXCEPT !.op = "Store", !.pc = "done",
                                                    !.p = p, !.src = d]
                              ELSE IdleProc]
  /\ file = ZeroFile
  /\ last = NoCall
  /\ stores = 0
  /\ zr = NoImport
  /\ site = EmptySite
  /\ xp = NoExport
  /\ dl = NoDownload
  /\ req = NoUpload
  /\ ft = NoType
  /\ gfs = NoBucket
  /\ pd = NoDir

\* handleUpload up to the first shared step of Store: the arguments are
\* checked and a payload not above the threshold is read into p.Content
StoreBegin ==
  /\ \E i \in Procs : \E d \in ProcPayloads(i) :
       /\ procs[i].op = "idle"
       /\ LET p == Upload(B_PNG, d.len, [data |-> d, mod |-> d.byte + 1])
          IN  procs' = [procs EXCEPT ![i] =
                IF d.len > maxFileSize
                THEN [IdleProc EXCEPT !.op = "Store", !.pc = "create", !.p = p, !.src = d]
                ELSE [IdleProc EXCEPT !.op = "Store", !.pc = "update",
                                      !.p = [p EXCEPT !.Content = d, !.IsLocal = FALSE],
                                      !.src = d]]
  /\ UNCHANGED <<col, fs, file, last, stores, zr, site, xp, dl, req, ft, gfs, pd>>

\* Store: os.MkdirAll and os.Create
StoreCreateStep ==
  /\ \E i \in Procs :
       /\ procs[i].pc = "create"
       /\ fs' = StoreCreate(fs, procs[i].p)
       /\ procs' = [procs EXCEPT ![i].pc = "copy"]
  /\ UNCHANGED <<col, file, last, stores, zr, site, xp, dl, req, ft, gfs, pd>>

\* Store: io.Copy to the file; p.IsLocal is set
StoreCopyStep ==
  /\ \E i \in Procs :
       /\ procs[i].pc = "copy"
       /\ fs' = StoreCopy(fs, procs[i].p, procs[i].src)
       /\ procs' = [procs EXCEPT ![i].pc = "update", ![i].p.IsLocal = TRUE]
  /\ UNCHANGED <<col, file, last, stores, zr, site, xp, dl, req, ft, gfs, pd>>

\* Store: col.UpdateOne, and the return
StoreUpdateStep ==
  /\ \E i \in Procs :
       /\ procs[i].pc = "update"
       /\ col' = StoreUpdate(col, procs[i].p)
       /\ procs' = [procs EXCEPT ![i].pc = "done", ![i].err = "nil"]
  /\ UNCHANGED <<fs, file, last, stores, zr, site, xp, dl, req, ft, gfs, pd>>

\* handleDelete: GetFromDB
DeleteLookupStep ==
  /\ \E i \in Procs :
       /\ procs[i].op = "idle"
       /\ LET g == GetFromDB(col, B_PNG)
          IN  procs' = [procs EXCEPT ![i] =
                IF g.err # "nil"
                THEN [IdleProc EXCEPT !.op = "Delete", !.pc = "done", !.err = g.err]
                ELSE [IdleProc EXCEPT !.op = "Delete", !.pc = "find", !.p = g.file,
                                      !.meta = g.file]]
  /\ UNCHANGED <<col, fs, file, last, stores, zr, site, xp, dl, req, ft, gfs, pd>>

\* Delete: col.FindOneAndDelete
DeleteFindStep ==
  /\ \E i \in Procs :
       /\ procs[i].pc = "find"
       /\ LET r == DeleteFind(col, procs[i].p)
          IN  /\ col' = r.col
              /\ procs' = [procs EXCEPT ![i].p = r.p,
                                        ![i].pc = IF r.found /\ r.p.IsLocal
                                                  THEN "remove" ELSE "done"]
  /\ UNCHANGED <<fs, file, last, stores, zr, site, xp, dl, req, ft, gfs, pd>>

\* Delete: os.Remove, and the return
DeleteRemoveStep ==
  /\ \E i \in Procs :
       /\ procs[i].pc = "remove"
       /\ LET r == DeleteRemove(fs, procs[i].p)
          IN  /\ fs' = r.fs
              /\ procs' = [procs EXCEPT ![i].pc = "done", ![i].err = r.err]
  /\ UNCHANGED <<col, file, last, stores, zr, site, xp, dl, req, ft, gfs, pd>>

\* handleFile: GetFromDB
ReadLookupStep ==
  /\ \E i \in Procs :
       /\ procs[i].op = "idle"
       /\ LET g == GetFromDB(col, B_PNG)
          IN  procs' = [procs EXCEPT ![i] =
                IF g.err # "nil"
                THEN [IdleProc EXCEPT !.op = "Read", !.pc = "done", !.err = g.err]
                ELSE [IdleProc EXCEPT !.op = "Read", !.pc = "open", !.p = g.file,
                                      !.meta = g.file]]
  /\ UNCHANGED <<col, fs, file, last, stores, zr, site, xp, dl, req, ft, gfs, pd>>

\* handleFile: Open, and the payload served from the reader
ReadOpenStep ==
  /\ \E i \in Procs :
       /\ procs[i].pc = "open"
       /\ LET o == Open(col, fs, procs[i].p)
          IN  procs' = [procs EXCEPT ![i].pc = "done", ![i].err = o.err,
                                    ![i].data = o.data, ![i].p = o.p]
  /\ UNCHANGED <<col, fs, file, last, stores, zr, site, xp, dl, req, ft, gfs, pd>>

NextConc ==
  \/ StoreBegin \/ StoreCreateStep \/ StoreCopyStep \/ StoreUpdateStep
  \/ DeleteLookupStep \/ DeleteFindStep \/ DeleteRemoveStep
  \/ ReadLookupStep \/ ReadOpenStep

SpecConc == InitConc /\ [][NextConc]_vars

(* ----------------------- behaviour of handleAsset --------------------- *)

InitAsset ==
  /\ col = <<>>
  /\ fs = [d \in DiskPaths |-> NoFile]
  /\ file = ZeroFile
  /\ last = NoCall
  /\ stores = 0
  /\ zr = NoImport
  /\ site = EmptySite
  /\ xp = NoExport
  /\ procs = [i \in 0..NumProcs |-> IdleProc]
  /\ dl = NoDownload
  /\ req = NoUpload
  /\ ft = NoType
  /\ gfs = NoBucket
  /\ pd = NoDir

\* handleAsset: the pipe is made and the first goroutine is started
HandleAsset ==
  /\ dl.phase = "idle"
  /\ \E n \in AssetSizes :
       dl' = [NoDownload EXCEPT !.phase = "sniff", !.n = n, !.w[1].st = "run"]
  /\ UNCHANGED <<col, fs, file, last, stores, zr, site, xp, procs, req, ft, gfs, pd>>

\* GridFSFile.Download: DownloadToStream calls Write on the pipe; the Write
\* waits for the Write before it and then for the reader
DownloadWrite ==
  /\ \E g \in 1..2, k \in WriteSizes :
       /\ dl.w[g].st = "run" /\ dl.w[g].pos < dl.n
       /\ dl.cur = NoWrite /\ ~dl.closed
       /\ dl' = [dl EXCEPT !.cur = [g |-> g, from |-> dl.w[g].pos,
                                    to |-> Min(dl.w[g].pos + k, dl.n)]]
  /\ UNCHANGED <<col, fs, file, last, stores, zr, site, xp, procs, req, ft, gfs, pd>>

\* a Write on the pipe whose write side was closed fails, and the goroutine
\* ends
DownloadWriteClosed ==
  /\ \E g \in 1..2 :
       /\ dl.w[g].st = "run" /\ dl.w[g].pos < dl.n
       /\ dl.cur.g # g /\ dl.closed
       /\ dl' = [dl EXCEPT !.w[g].st = "done", !.w[g].err = "ErrClosedPipe"]
  /\ UNCHANGED <<col, fs, file, last, stores, zr, site, xp, procs, req, ft, gfs, pd>>

\* Download has returned nil and the goroutine closes the write side of the
\* pipe: a Write of the other goroutine that is pending fails, its bytes are
\* not read
DownloadClose ==
  /\ \E g \in 1..2 :
       /\ dl.w[g].st = "run" /\ dl.w[g].pos = dl.n
       /\ dl' = [dl EXCEPT !.w[g].st = "done", !.closed = TRUE, !.cur = NoWrite]
  /\ UNCHANGED <<col, fs, file, last, stores, zr, site, xp, procs, req, ft, gfs, pd>>

\* mimetype.DetectReader reads from the pipe
Sniff ==
  /\ dl.phase = "sniff"
  /\ dl.sniffed < readLimit
  /\ dl.cur # NoWrite
  /\ dl' = [PipeRead(dl, readLimit - dl.sniffed) EXCEPT
              !.sniffed = @ + Min(readLimit - dl.sniffed, dl.cur.to - dl.cur.from)]
  /\ UNCHANGED <<col, fs, file, last, stores, zr, site, xp, procs, req, ft, gfs, pd>>

\* DetectReader has read readLimit bytes or the end of the pipe: handleAsset
\* starts the second goroutine and calls DataFromReader
SniffDone ==
  /\ dl.phase = "sniff"
  /\ dl.sniffed = readLimit \/ (dl.closed /\ dl.cur = NoWrite)
  /\ dl' = [dl EXCEPT !.phase = "serve", !.w[2].st = "run"]
  /\ UNCHANGED <<col, fs, file, last, stores, zr, site, xp, procs, req, ft, gfs, pd>>

\* DataFromReader copies from the pipe to the response
Serve ==
  /\ dl.phase = "serve"
  /\ dl.cur # NoWrite
  /\ dl' = [PipeRead(dl, dl.cur.to - dl.cur.from) EXCEPT
              !.out = AppendRange(@, dl.cur.from, dl.cur.to)]
  /\ UNCHANGED <<col, fs, file, last, stores, zr, site, xp, procs, req, ft, gfs, pd>>

\* DataFromReader reads the end of the pipe
ServeEOF ==
  /\ dl.phase = "serve"
  /\ dl.closed /\ dl.cur = NoWrite
  /\ dl' = [dl EXCEPT !.phase = "done"]
  /\ UNCHANGED <<col, fs, file, last, stores, zr, site, xp, procs, req, ft, gfs, pd>>

NextAsset ==
  \/ HandleAsset \/ DownloadWrite \/ DownloadWriteClosed \/ DownloadClose
  \/ Sniff \/ SniffDone \/ Serve \/ ServeEOF

SpecAsset == InitAsset /\ [][NextAsset]_vars

(* ---------------------- behaviour of handleUpload --------------------- *)

InitUpload ==
  /\ col = <<>>
  /\ fs = [d \in UploadDiskPaths |-> NoFile]
  /\ file = ZeroFile
  /\ last = NoCall
  /\ stores = 0
  /\ zr = NoImport
  /\ site = EmptySite
  /\ xp = NoExport
  /\ procs = [i \in 0..NumProcs |-> IdleProc]
  /\ dl = NoDownload
  /\ req = NoUpload
  /\ ft = NoType
  /\ gfs = NoBucket
  /\ pd = NoDir

\* handleUpload up to the credential check: c.FormFile, os.MkdirTemp and
\* c.SaveUploadedFile; a request without file is answered 400, a file that
\* cannot be saved 500, and the deferred os.RemoveAll removes the directory
HandleUploadSave ==
  /\ req.pc \in {"idle", "done"}
  /\ req.n < MaxRequests
  /\ \E server \in {"files", "pages"}, ff \in FormFiles \cup {NoFormFile}, ok \in BOOLEAN :
       LET r == [NoUpload EXCEPT !.server = server, !.n = req.n + 1,
                                 !.before = <<col, fs, site>>]
       IN  req' = IF ff = NoFormFile
                  THEN [r EXCEPT !.pc = "done", !.status = 400, !.err = "ErrMissingFile"]
                  ELSE IF ~ok
                  THEN [r EXCEPT !.pc = "done", !.ff = ff, !.status = 500, !.err = "save"]
                  ELSE [r EXCEPT !.pc = "saved", !.ff = ff, !.tmp = TRUE, !.saved = TRUE]
  /\ UNCHANGED <<col, fs, file, last, stores, zr, site, xp, procs, dl, ft, gfs, pd>>

\* auth(c) and c.IsAborted() without the deferred os.RemoveAll
HandleUploadAuth_NoRemoveAll ==
  /\ req.pc = "saved"
  /\ \E aborted \in BOOLEAN :
       req' = IF aborted
              THEN [req EXCEPT !.pc = "done", !.status = 401, !.err = "aborted"]
              ELSE [req EXCEPT !.pc = "checked"]
  /\ UNCHANGED <<col, fs, file, last, stores, zr, site, xp, procs, dl, ft, gfs, pd>>

\* auth(c) and c.IsAborted(): the middleware aborts the request with 401 or
\* lets it pass; on the return the deferred os.RemoveAll removes the
\* temporary directory
HandleUploadAuth ==
  /\ req.pc = "saved"
  /\ \E aborted \in BOOLEAN :
       req' = IF aborted
              THEN [req EXCEPT !.pc = "done", !.status = 401, !.err = "aborted",
                               !.tmp = FALSE]
              ELSE [req EXCEPT !.pc = "checked"]
  /\ UNCHANGED <<col, fs, file, last, stores, zr, site, xp, procs, dl, ft, gfs, pd>>

\* handleUpload of src/portfolio/upload.go after the credential check: an
\* archive is imported and its error is the error of the handler; any other
\* file is stored, the error of Store being assigned to the err declared in
\* the else block, so that the handler's err is still the nil of os.Open
HandleUploadStore ==
  /\ req.pc = "checked" /\ req.server = "files"
  /\ IF Ext(req.ff.name) = DOT_ZIP
     THEN \E r \in {handleUploadZip(col, fs, Join(TmpDir, req.ff.name), req.ff.File)} :
            /\ col' = r.col
            /\ fs' = r.fs
            /\ req' = [req EXCEPT !.pc = "done", !.tmp = FALSE,
                                  !.err = r.err,
                                  !.status = IF r.err # "nil" THEN 500 ELSE 201,
                                  !.location = IF r.err # "nil" THEN EmptyPath
                                               ELSE <<"/">> \o Join(<<"a", "d", "m", "i", "n">>,
                                                                   <<"l", "i", "s", "t">>)]
     ELSE \E r \in {handleUploadStore(col, fs, req.ff)} :
            /\ col' = r.col
            /\ fs' = r.fs
            /\ req' = [req EXCEPT !.pc = "done", !.tmp = FALSE,
                                  !.p = r.p, !.called = TRUE, !.err = r.err,
                                  !.status = 201,
                                  !.location = Join(URIRoot, req.ff.name)]
  /\ UNCHANGED <<file, last, stores, zr, site, xp, procs, dl, ft, gfs, pd>>

\* handleUpload of src/unnamed/part_006 after the credential check: the switch
\* over the type of the file name
HandleUploadByType ==
  /\ req.pc = "checked" /\ req.server = "pages"
  /\ IF MatchesExt("Zipped", req.ff.name)
     THEN /\ site' = handleUploadZipByType(site, req.ff.File, <<>>).site
          /\ req' = [req EXCEPT !.pc = "done", !.tmp = FALSE,
                                !.status = 201,
                                !.location = <<"/">> \o Join(<<"a", "d", "m", "i", "n">>,
                                                            <<"l", "i", "s", "t">>)]
     ELSE \E r \in {uploadByType(site, req.ff.name,
                                 [data |-> req.ff.data, kind |-> "raw"], req.ff.mod)} :
            /\ site' = r.site
            /\ req' = [req EXCEPT !.pc = "done", !.tmp = FALSE,
                                  !.status = 201,
                                  !.location =
                                    Join(IF r.dest = "static" THEN StaticURL
                                         ELSE IF r.dest = "tmpl" THEN TmplURL
                                         ELSE PageURL, req.ff.name)]
  /\ UNCHANGED <<col, fs, file, last, stores, zr, xp, procs, dl, ft, gfs, pd>>

\* a request to delete a path, which has passed the credential check of the
\* route
HandleDelete ==
  /\ req.pc \in {"idle", "done"}
  /\ req.n < MaxRequests
  /\ \E name \in DeleteURIs :
       \E r \in {handleDelete(col, fs, name)} :
         /\ col' = r.col
         /\ fs' = r.fs
         /\ req' = [NoUpload EXCEPT !.pc = "done", !.server = "files", !.uri = name,
                                    !.status = r.status, !.err = r.err, !.p = r.p,
                                    !.n = req.n + 1]
  /\ UNCHANGED <<file, last, stores, zr, site, xp, procs, dl, ft, gfs, pd>>

NextUpload ==
  \/ HandleUploadSave
  \/ HandleUploadAuth
  \/ HandleUploadStore
  \/ HandleUploadByType
  \/ HandleDelete

SpecUpload == InitUpload /\ [][NextUpload]_vars

(* --------------------- behaviour of filetypeFromFile ------------------ *)

InitType ==
  /\ col = <<>>
  /\ fs = [d \in DiskPaths |-> NoFile]
  /\ file = ZeroFile
  /\ last = NoCall
  /\ stores = 0
  /\ zr = NoImport
  /\ site = EmptySite
  /\ xp = NoExport
  /\ procs = [i \in 0..NumProcs |-> IdleProc]
  /\ dl = NoDownload
  /\ req = NoUpload
  /\ ft = NoType
  /\ gfs = NoBucket
  /\ pd = NoDir

\* a call of filetypeFromFile
FiletypeFromFile ==
  /\ ft.n < MaxClassified
  /\ \E stem \in TypeStems, ext \in TypeExts, case \in {"lower", "upper", "mixed"} :
       LET f == stem \o Written(ext, case)
       IN  ft' = [name |-> f, ext |-> ext, case |-> case, type |-> filetypeFromFile(f),
                  n |-> ft.n + 1]
  /\ UNCHANGED <<col, fs, file, last, stores, zr, site, xp, procs, dl, req, gfs, pd>>

SpecType == InitType /\ [][FiletypeFromFile]_vars

(* ---------------------- behaviour of the GridFS server ---------------- *)

InitBucket ==
  /\ col = <<>>
  /\ fs = [d \in DiskPaths |-> NoFile]
  /\ file = ZeroFile
  /\ last = NoCall
  /\ stores = 0
  /\ zr = NoImport
  /\ site = EmptySite
  /\ xp = NoExport
  /\ procs = [i \in 0..NumProcs |-> IdleProc]
  /\ dl = NoDownload
  /\ req = NoUpload
  /\ ft = NoType
  /\ gfs = NoBucket
  /\ pd = NoDir

\* a call of GridFSFile.Upload
UploadFile ==
  /\ gfs.n < MaxBucketOps
  /\ \E name \in BucketNames, data \in BucketPayloads, meta \in BucketMetas :
       LET r == GridFSFileUpload(gfs.files, [id |-> ZeroID, Name |-> name, Size |-> 0,
                                             MetaData |-> meta], data)
       IN  gfs' = [files |-> r.files, op |-> "Upload", name |-> name, status |-> 0,
                   err |-> r.err, n |-> gfs.n + 1]
  /\ UNCHANGED <<col, fs, file, last, stores, zr, site, xp, procs, dl, req, ft, pd>>

\* a request to delete a file
HandleDeleteFile ==
  /\ gfs.n < MaxBucketOps
  /\ \E asset \in BucketNames :
       LET r == handleDeleteFile(gfs.files, asset)
       IN  gfs' = [files |-> r.files, op |-> "handleDelete", name |-> asset,
                   status |-> r.status, err |-> r.err, n |-> gfs.n + 1]
  /\ UNCHANGED <<col, fs, file, last, stores, zr, site, xp, procs, dl, req, ft, pd>>

NextBucket == UploadFile \/ HandleDeleteFile

SpecBucket == InitBucket /\ [][NextBucket]_vars

(* ------------------------ behaviour of ProcessDir --------------------- *)

InitDir ==
  /\ col = <<>>
  /\ fs = [d \in DiskPaths |-> NoFile]
  /\ file = ZeroFile
  /\ last = NoCall
  /\ stores = 0
  /\ zr = NoImport
  /\ site = EmptySite
  /\ xp = NoExport
  /\ procs = [i \in 0..NumProcs |-> IdleProc]
  /\ dl = NoDownload
  /\ req = NoUpload
  /\ ft = NoType
  /\ gfs = NoBucket
  /\ pd = NoDir

\* ProcessDir up to the walk: the config file, if the directory has one, is
\* decoded into the Configs; the walk visits the files in lexical order, the
\* config file among them
ProcessDir ==
  /\ pd.pc \in {"idle", "done"}
  /\ pd.n < MaxDirs
  /\ \E files \in SUBSET DirFiles, exists \in BOOLEAN :
       \E listed \in SUBSET files :
         LET all == files \cup (IF exists THEN {ConfigFile} ELSE {})
             sorted == SortByName({[name |-> f] : f \in all})
         IN  /\ all # {}
             /\ ~exists => listed = {}
             /\ pd' = [NoDir EXCEPT !.pc = "walk", !.files = all,
                                    !.configs = Configs(exists, listed),
                                    !.walk = [i \in 1..Len(sorted) |-> sorted[i].name],
                                    !.db = pd.db, !.moved = pd.moved, !.n = pd.n + 1]
  /\ UNCHANGED <<col, fs, file, last, stores, zr, site, xp, procs, dl, req, ft, gfs>>

\* a call of processFile by the walk; an error ends the walk
ProcessFile ==
  /\ pd.pc = "walk"
  /\ pd.walk # <<>>
  /\ \E fail \in BOOLEAN :
       \E r \in {processFile(Head(pd.walk), pd, fail)} :
         pd' = [r EXCEPT !.walk = IF r.err # "nil" THEN <<>> ELSE Tail(pd.walk),
                         !.processed = pd.processed \cup {Head(pd.walk)},
                         !.rel = Head(pd.walk), !.fail = fail,
                         !.type = IF ~pd.configs.nil /\ Head(pd.walk) \in DOMAIN pd.configs.m
                                  THEN pd.configs.m[Head(pd.walk)].FileType
                                  ELSE DefaultConfig(Join(Dir, Head(pd.walk))).FileType]
  /\ UNCHANGED <<col, fs, file, last, stores, zr, site, xp, procs, dl, req, ft, gfs>>

\* ProcessDir returns the Configs and the error of the walk
ProcessDirReturn ==
  /\ pd.pc = "walk"
  /\ pd.walk = <<>>
  /\ pd' = [pd EXCEPT !.pc = "done"]
  /\ UNCHANGED <<col, fs, file, last, stores, zr, site, xp, procs, dl, req, ft, gfs>>

NextDir == ProcessDir \/ ProcessFile \/ ProcessDirReturn

SpecDir == InitDir /\ [][NextDir]_vars

(* ------------------------- reading an item back ----------------------- *)

\* the documents stored for a path
Records(u) == {i \in 1..Len(col) : col[i].uri = u}

\* GetFromDB(uri) followed by Open() on the file it returned
LookupOpen(c, f, uri) ==
  LET g == GetFromDB(c, uri)
  IN  IF g.err # "nil"
      THEN [err |-> g.err, data |-> NoFile, file |-> g.file]
      ELSE LET o == Open(c, f, g.file)
           IN  [err |-> o.err, data |-> o.data, file |-> g.file]

\* the latest call was a Store that returned no error
Stored == last.op = "Store" /\ last.err = "nil"

\* ... of a payload whose length is the declared size
StoredSized == Stored /\ last.p.Filesize = last.src.len

(* ------------------------------- claims ------------------------------- *)

\* C1: after successful Stores exactly one record exists for the stored path,
\* and looking the path up and opening it returns the payload of the latest
\* Store, whatever the sizes of the earlier and the later payload.
C1_OneRecordLatestPayload ==
  StoredSized =>
    /\ Cardinality(Records(last.p.URI)) = 1
    /\ LookupOpen(col, fs, last.p.URI).data = last.src

\* C2: Store, then GetFromDB and Open, returns exactly the stored bytes for
\* every payload of size >= 1, Inline or External.
C2_RoundTrip ==
  (StoredSized /\ last.src.len >= 1) =>
    LET r == LookupOpen(col, fs, last.p.URI)
    IN  /\ r.err = "nil"
        /\ r.file.URI = last.p.URI
        /\ r.data.len = last.src.len
        /\ r.data.byte = last.src.byte

\* C3: after a successful Store the record is External (is_local) if the
\* size is greater than the threshold and Inline otherwise, whatever record
\* was at the path before.
C3_PlacementBySize ==
  StoredSized =>
    \A i \in Records(last.p.URI) :
      col[i].is_local = (last.p.Filesize > maxFileSize)

\* C4: after a successful Store over an existing path the record holds only
\* the values of the new call: content, size, modified time, mime type and
\* placement; nothing of the previous record survives.
C4_RecordReplaced ==
  StoredSized =>
    \A i \in Records(last.p.URI) :
      /\ col[i].size = last.p.Filesize
      /\ col[i].last_mod = last.p.LastMod
      /\ col[i].mimetype = last.p.Mime
      /\ col[i].is_md = last.p.IsMD
      /\ col[i].is_local = (last.p.Filesize > maxFileSize)
      /\ col[i].content = (IF last.p.Filesize > maxFileSize THEN NoContent ELSE last.src)

\* C5: a backing file exists for a path exactly when a record with External
\* placement exists for it; in particular a Store that makes the item Inline
\* leaves no backing file behind.
C5_BackingFileIffExternal ==
  /\ \A u \in StoreURIs :
       (fs[Join(URIRoot, u)] # NoFile) <=> (\E i \in Records(u) : col[i].is_local)
  /\ (StoredSized /\ last.p.Filesize <= maxFileSize) => fs[Join(URIRoot, last.p.URI)] = NoFile

\* C6: Store with an empty path or with a size not greater than zero fails
\* with the invalid-input error, does not read the reader and changes
\* neither the collection nor the file system.
C6_InvalidInputRejected ==
  [][(last'.op = "Store" /\ stores' = stores + 1
        /\ (last'.p.URI = EmptyPath \/ last'.p.Filesize <= 0))
      => (last'.err = "ErrInvalid" /\ ~last'.consumed /\ col' = col /\ fs' = fs)]_vars

\* C7: for every record, the recorded size is the length of the payload
\* that Open returns for it.
C7_SizeIsPayloadLength ==
  \A i \in 1..Len(col) :
    col[i].size >= 1 =>
      LET r == LookupOpen(col, fs, col[i].uri)
      IN  r.err = "nil" /\ r.data.len = col[i].size

\* C8: Delete of a path that has no record returns success and changes
\* neither the collection nor the file system; so a Delete that directly
\* follows a Delete of the same path succeeds and changes nothing.
C8_DeleteMissingIsNoOp ==
  [][last'.op = "Delete" =>
       /\ Records(last'.p.URI) = {} =>
            (last'.err = "nil" /\ col' = col /\ fs' = fs)
       /\ (last.op = "Delete" /\ last.p.URI = last'.p.URI) =>
            (last'.err = "nil" /\ col' = col /\ fs' = fs)]_vars

\* C8 witness: a Delete of a path without record has returned success while
\* other records were stored
C8_Witness ==
  /\ last.op = "Delete" /\ ~last.found /\ last.err = "nil"
  /\ col # <<>>

\* the path ends in .html
EndsInHTML(u) == Len(u) >= 5 /\ SubSeq(u, Len(u) - 4, Len(u)) = DOT_HTML

\* the path with its ending .html replaced by .md
MarkdownOf(u) == SubSeq(u, 1, Len(u) - 5) \o DOT_MD

\* the first record stored for a path
RecordOf(u) == col[SetMin(Records(u))]

\* C9: GetFromDB returns the record of the requested path with one lookup
\* when it exists; on a miss of a path ending in .html it looks the .md path
\* up once more and returns that record as markdown under the .md path, or
\* NotFound; on a miss of any other path it returns NotFound after one lookup.
C9_HtmlFallback ==
  last.op = "GetFromDB" =>
    LET u == last.p.URI
    IN  /\ Records(u) # {} =>
             /\ last.err = "nil" /\ last.lookups = 1
             /\ file.URI = u
             /\ file.IsMD = RecordOf(u).is_md
             /\ file.Filesize = RecordOf(u).size
             /\ file.IsLocal = RecordOf(u).is_local
        /\ (Records(u) = {} /\ EndsInHTML(u)) =>
             /\ last.lookups = 2
             /\ IF Records(MarkdownOf(u)) # {}
                THEN /\ last.err = "nil"
                     /\ file.URI = MarkdownOf(u)
                     /\ file.IsMD
                     /\ file.Filesize = RecordOf(MarkdownOf(u)).size
                     /\ file.IsLocal = RecordOf(MarkdownOf(u)).is_local
                ELSE last.err = "ErrNoDocuments" /\ file = ZeroFile
        /\ (Records(u) = {} /\ ~EndsInHTML(u)) =>
             (last.err = "ErrNoDocuments" /\ last.lookups = 1 /\ file = ZeroFile)

\* C9 witness: a lookup of /a.html missed and returned the record of /a.md
C9_Witness ==
  /\ last.op = "GetFromDB" /\ last.p.URI = A_HTML /\ last.err = "nil"
  /\ last.lookups = 2 /\ file.URI = A_MD /\ file.IsMD

\* C10: ToPage fails with the not-markdown error, without reading the
\* store, exactly for the files whose markdown flag is false; for a markdown
\* file whose record and payload are readable it succeeds, Inline or
\* External, and returns the rendered payload and the record's modified time.
C10_ToPageOnlyMarkdown ==
  last.op = "ToPage" =>
    LET p == last.p
        u == p.URI
    IN  /\ ~p.IsMD => (last.err = "ErrNotMD" /\ ~last.read)
        /\ p.IsMD => (last.err # "ErrNotMD" /\ last.read)
        /\ (p.IsMD /\ Records(u) # {}
              /\ (RecordOf(u).is_local => fs[Join(URIRoot, u)] # NoFile)) =>
             /\ last.err = "nil"
             /\ last.page.LastMod = RecordOf(u).last_mod
             /\ last.page.Content.html =
                  (IF RecordOf(u).is_local THEN fs[Join(URIRoot, u)]
                   ELSE RecordOf(u).content)

\* C10 witness: ToPage has rendered a markdown file stored on the file system
C10_Witness ==
  /\ last.op = "ToPage" /\ last.err = "nil" /\ last.p.IsMD /\ last.p.IsLocal
  /\ last.page.Content.html.len > maxFileSize

\* the path is below the root of the stored files
InNamespace(d) == HasPrefix(d, URIRoot \o <<"/">>)

\* C11: the path normalized from an archive name and an entry name does not
\* begin with ".." and has no ".." element, so the key handed to Store and the
\* location of the file written for it stay below the root of the store.
C11_NormalizedPathInNamespace ==
  (zr.state # "idle" /\ last.op = "Store") =>
    LET fPath == Tail(last.p.URI)
    IN  /\ ~HasPrefix(fPath, DOTDOT)
        /\ \A i \in 1..Len(Split(fPath)) : Split(fPath)[i] # DOTDOT
        /\ InNamespace(Join(URIRoot, last.p.URI))

\* the positions of the file entries among the first n entries of the archive
FilePositions(n) == {i \in 1..n : i <= Len(zr.File) /\ ~IsDir(zr.File[i])}

\* the key an entry of the archive is stored under
EntryURI(zf) == <<"/">> \o handleUploadZipGetUri(zr.name, zf.name).path

\* the error an entry fails with: a name that cannot be made relative to the
\* archive name, or an empty file
EntryErr(zf) ==
  IF handleUploadZipGetUri(zr.name, zf.name).err # "nil"
  THEN handleUploadZipGetUri(zr.name, zf.name).err
  ELSE IF zf.data.len = 0 THEN "ErrInvalid" ELSE "nil"

\* the keys of the documents of the collection
StoredNames == {col[i].name : i \in 1..Len(col)}

Applied == {zr.applied[j] : j \in 1..Len(zr.applied)}

\* the names of the files of a directory
FilesOf(dir) == {x.name : x \in dir}

RootIndex == {i \in 1..Len(xp.w) : xp.w[i].name = index}

\* the exported server has a static file, a page that is an index candidate
StaticIndex == index \in FilesOf(xp.source.stat)
PageIndex == TrimExt(index) \in listAllPages(xp.source)

Canon(n) == IF Ext(n) = DOT_HTML THEN TrimExt(n) ELSE n

ProcsOf(op) == {i \in Procs : procs[i].op = op}
AllDone == \A i \in Procs : procs[i].pc = "done"

\* the Stores, the completed one included, are all above or all not above
\* the threshold
SamePlacement ==
  \A i, j \in {k \in 0..NumProcs : procs[k].op = "Store"} :
    (procs[i].p.Filesize > maxFileSize) = (procs[j].p.Filesize > maxFileSize)

\* the item stored at the path is the item of request k: its record has
\* the metadata of that call and Open returns the payload of that call
ItemOf(k) ==
  LET r == LookupOpen(col, fs, B_PNG)
  IN  /\ r.err = "nil"
      /\ r.file.Filesize = procs[k].p.Filesize
      /\ r.file.LastMod = procs[k].p.LastMod
      /\ r.file.Mime = procs[k].p.Mime
      /\ r.data = procs[k].src

\* C16: when concurrent Stores to one path have all succeeded, the item at
\* the path is the item of one of them, metadata and payload of the same
\* call, for payloads below and above the threshold.
C16_ConcurrentStoresOneItem ==
  (AllDone /\ ProcsOf("Store") = Procs /\ SamePlacement
     /\ \A i \in Procs : procs[i].err = "nil") =>
    \E k \in Procs : ItemOf(k)

\* C17: after a Store and a Delete of one path have run concurrently, the
\* path has no record, or a record whose payload is there in the recorded
\* size; a record above the threshold is never left without its file.
C17_StoreDeleteConsistent ==
  (AllDone /\ ProcsOf("Store") # {} /\ ProcsOf("Delete") # {}
     /\ ProcsOf("Read") = {} /\ SamePlacement) =>
    \A n \in 1..Len(col) :
      /\ col[n].is_local => fs[Join(URIRoot, col[n].uri)] # NoFile
      /\ LookupOpen(col, fs, col[n].uri).err = "nil"
      /\ LookupOpen(col, fs, col[n].uri).data.len = col[n].size

\* C18: a request that looks a path up and opens it while a Store replaces
\* the item gets the old item or the new item, metadata and payload of the
\* same Store.
C18_ReaderSeesOneItem ==
  \A i \in ProcsOf("Read") :
    (procs[i].pc = "done" /\ procs[i].err = "nil" /\ procs[0].op = "Store"
       /\ ProcsOf("Delete") = {} /\ SamePlacement) =>
      \E k \in {0} \cup ProcsOf("Store") :
        /\ procs[i].meta.Filesize = procs[k].p.Filesize
        /\ procs[i].meta.LastMod = procs[k].p.LastMod
        /\ procs[i].data = procs[k].src

Permuted(File) ==
  {[i \in 1..Len(File) |-> File[pi[i]]] : pi \in Permutations(1..Len(File))}

\* the content items of a store: the paths of its documents, each with the
\* bytes GetFromDB and Open return for it
ItemsOf(c, f) ==
  {[path |-> c[i].name, data |-> LookupOpen(c, f, c[i].name).data] : i \in 1..Len(c)}

\* the documents of a collection
DocsOf(c) == {c[i] : i \in 1..Len(c)}

\* the store an import of the archive File into the empty store leaves
Imported(File) ==
  handleUploadZip(<<>>, [d \in ZipDiskPaths |-> NoFile], zr.name, File)

\* the file entries of the archive have pairwise different keys
DistinctKeys ==
  \A i, j \in FilePositions(Len(zr.File)) :
    i # j => EntryURI(zr.File[i]) # EntryURI(zr.File[j])

UploadStored == req.pc = "done" /\ req.called /\ req.err = "nil"

\* C21: an item stored by an upload has the markdown flag exactly if the
\* type of its name, the extension compared without regard to case, is
\* Markdown: X.MD is stored as markdown like x.md.
C21_MarkdownFlagByType ==
  UploadStored =>
    /\ \E i \in 1..Len(col) : col[i].name = req.p.URI
    /\ \A i \in 1..Len(col) :
         col[i].name = req.p.URI =>
           (col[i].is_md <=> filetypeFromFile(req.ff.name) = "Markdown")

\* C22: filetypeFromFile gives every file name exactly one Filetype, which
\* depends only on the extension without regard to case: .zip is ZIP, .md
\* Markdown, .html, .css, .js, .ico and .svg Static, .gohtml and .tmpl
\* Templated, and every other name, a name without extension included, Asset.
C22_TypeByExtension ==
  ft.n > 0 =>
    /\ ft.type \in Filetypes
    /\ ft.type = "ZIP" <=> ft.ext = DOT_ZIP
    /\ ft.type = "Markdown" <=> ft.ext = DOT_MD
    /\ ft.type = "Static" <=> ft.ext \in {DOT_HTML, DOT_CSS, DOT_JS, DOT_ICO, DOT_SVG}
    /\ ft.type = "Templated" <=> ft.ext \in {DOT_GOHTML, DOT_TMPL}
    /\ ft.type = "Asset" <=>
         ft.ext \notin {DOT_ZIP, DOT_MD, DOT_HTML, DOT_CSS, DOT_JS, DOT_ICO, DOT_SVG,
                        DOT_GOHTML, DOT_TMPL}

\* a name with the extension .MD has been classified as Markdown
C22_Witness ==
  /\ ft.n > 0
  /\ Ext(ft.name) = <<".", "M", "D">>
  /\ ft.type = "Markdown"

\* C23: every key of a record written by an upload or an import is
\* relative: no key begins with a slash.
C23_KeysRelative == \A i \in 1..Len(col) : col[i].name[1] # "/"

\* C23, as the handlers write the keys: every key of a record written by an
\* upload or an import is a slash followed by a relative path, the name of
\* the uploaded file or the normalized path of the entry.
C23_KeysRooted ==
  /\ \A i \in 1..Len(col) :
       /\ Len(col[i].name) > 1
       /\ col[i].name[1] = "/"
       /\ col[i].name[2] # "/"
  /\ UploadStored =>
       \E i \in 1..Len(col) : col[i].name = <<"/">> \o req.ff.name

\* an uploaded file and an imported entry are both stored
C23_Witness ==
  /\ UploadStored
  /\ \E i, j \in 1..Len(col) :
       /\ col[i].name = <<"/">> \o req.ff.name
       /\ col[j].name \notin {<<"/">> \o n : n \in UploadNames}

\* C27: an upload of a single file whose Store fails, as for an empty file,
\* ends with an error response and never with 201 Created: the response is
\* 201 Created with a Location only if the content has been stored.
C27_CreatedOnlyWhenStored ==
  (req.pc = "done" /\ req.server = "files" /\ req.called) =>
    /\ req.err # "nil" => req.status >= 400
    /\ req.status = 201 =>
         /\ req.location # EmptyPath
         /\ \E i \in 1..Len(col) : col[i].name = req.p.URI

\* C29: a request that the credential check aborts has saved the uploaded
\* file to the temporary directory before the check, has created or changed
\* no record, has written no file to the files, static or template roots,
\* and leaves no temporary directory when the handler returns.
C29_AbortedUploadStoresNothing ==
  (req.pc = "done" /\ req.status = 401) =>
    /\ req.saved
    /\ ~req.called
    /\ <<col, fs, site>> = req.before
    /\ ~req.tmp

\* a request is aborted after an earlier one has stored a record
C29_Witness ==
  /\ req.pc = "done" /\ req.status = 401
  /\ req.n = 2
  /\ Len(col) + Len(site.pages) > 0

\* the files of the bucket with a name
Named(name) == SelectSeq(gfs.files, LAMBDA d : d.filename = name)

\* C24: the handler that deletes a file of the bucket answers 204 No Content
\* when the file has been deleted and when the bucket has no file of that
\* name; it answers with an error only after another failure.
C24_DeleteAnswersNoContent ==
  gfs.op = "handleDelete" =>
    /\ gfs.err \in {"nil", "ErrFileNotFound"} => gfs.status = 204
    /\ Named(gfs.name) = <<>> => gfs.status = 204

\* C25: after any sequence of calls of GridFSFile.Upload the bucket has at
\* most one file of a name, and it holds the content of the latest Upload of
\* that name.
C25_OneFilePerName ==
  \A name \in BucketNames :
    /\ Len(Named(name)) <= 1
    /\ \A i \in 1..Len(Named(name)) :
         \A j \in 1..Len(gfs.files) :
           gfs.files[j].filename = name => gfs.files[j].id <= Named(name)[i].id

\* the records stored under a path, in a collection
RecordsIn(c, u) == SelectSeq(c, LAMBDA d : d.uri = u)

\* C30: a request to delete a path removes at most the record under that
\* path and its backing file: the records under every other path, the .md
\* record of a requested .html path included, and their backing files are
\* unchanged.
C30_DeleteOnlyRequested ==
  [][req'.uri # EmptyPath =>
       /\ \A i \in 1..Len(col) :
            col[i].uri # req'.uri => RecordsIn(col', col[i].uri) = RecordsIn(col, col[i].uri)
       /\ \A d \in DOMAIN fs :
            d # Join(URIRoot, req'.uri) => fs'[d] = fs[d]]_vars

\* C26: when ProcessDir returns without error, the Configs hold a Config
\* for every file of the directory that has been processed: a file the
\* config file does not list has been added with default values, also when
\* the directory has no config file.
C26_ConfigForEveryFile ==
  (pd.pc = "done" /\ pd.err = "nil") =>
    /\ ~pd.configs.nil
    /\ \A rel \in pd.processed : rel \in DOMAIN pd.configs.m

\* C28: Config.process removes the source file of an Asset or of a Markdown
\* file only after its upload has succeeded: if the upload fails, process
\* returns the error and the source file is still in the directory.
C28_RemovedOnlyAfterUpload ==
  (pd.rel # EmptyPath /\ pd.type \in {"Asset", "Markdown"} /\ pd.fail) =>
    /\ pd.err # "nil"
    /\ pd.rel \in pd.files

====
